---------------------------- MODULE Spec2Model ----------------------------
(***************************************************************************)
(* A model of the forensics diagnostic engine (src/src/forensics.cpp):     *)
(* the packed attribute store, the breadcrumb ring with its byte ring, the *)
(* per-thread context stacks and the assembly of a report with its         *)
(* fingerprint id.                                                         *)
(*                                                                         *)
(* Memory is modelled byte by byte.  A cell of a buffer holds              *)
(*   c >= 0   a character (0 is the string terminator),                    *)
(*   -1       a byte that was never written (malloc does not clear), and   *)
(*   c <= -2  one byte of a stored pointer (see PtrByte).                  *)
(* Strings are sequences of non-zero character codes.  A string or a       *)
(* pointer that is read back from cells that do not hold one reads as      *)
(* garbage (BadStr, BadPtr).                                               *)
(***************************************************************************)
EXTENDS Integers, Sequences, FiniteSets, TLC

(***************************************************************************)
(* Bounds of the model.                                                    *)
(***************************************************************************)
\* operations per behaviour
MaxOps == 4
\* application threads
Threads == { 1, 2 }

(***************************************************************************)
(* Program constants.                                                      *)
(***************************************************************************)
\* sizeof(char**), the unit of the pointer tables of a breadcrumb
PtrSize == 8

NullPtr == 0 - 1
BadPtr == 0 - 2
Uninit == 0 - 1
BadStr == << 0 - 1 >>

Min(a, b) == IF a < b THEN a ELSE b
Max(a, b) == IF a < b THEN b ELSE a

(***************************************************************************)
(* Byte-level helpers: strlen/strcmp/memmove over a buffer of cells.       *)
(***************************************************************************)
\* the bytes of a C string: its characters and the terminator
CBytes(s) == s \o << 0 >>

\* strlen(s) + 1
SizeBytes(s) == Len(s) + 1

\* byte k of the pointer value p, as stored in a buffer
PtrByte(p, k) == 0 - (2 + p * PtrSize + k)

PtrBytes(p) == [k \in 1..PtrSize |-> PtrByte(p, k - 1)]

\* memmove(buf + at, bytes, Len(bytes)); bytes that fall outside the
\* modelled cells are not kept
WriteBytes(buf, at, bytes) ==
    [i \in DOMAIN buf |->
        IF at <= i /\ i < at + Len(bytes) THEN bytes[i - at + 1] ELSE buf[i]]

\* the pointer stored in the PtrSize cells at `at`
ReadPtr(buf, at) ==
    IF at < 0 \/ ~(\A k \in 0..(PtrSize - 1) : (at + k) \in DOMAIN buf)
    THEN BadPtr
    ELSE IF buf[at] > 0 - 2 THEN BadPtr
    ELSE LET p == ((0 - buf[at]) - 2) \div PtrSize IN
         IF \A k \in 0..(PtrSize - 1) : buf[at + k] = PtrByte(p, k)
         THEN p ELSE BadPtr

\* the C string that starts at cell p: what strcmp, strlen and a report
\* handler see through a char pointer.  The characters up to the first cell
\* that is not one (the cells of a buffer are 0..size-1): a 0 ends the
\* string, any other such cell, or the end of the cells, makes it unreadable
ReadStr(buf, p) ==
    IF p < 0 \/ p \notin DOMAIN buf THEN BadStr
    ELSE LET stop == CHOOSE q \in p..Cardinality(DOMAIN buf) :
                        /\ q \notin DOMAIN buf \/ buf[q] <= 0
                        /\ \A r \in p..(q - 1) : buf[r] > 0
         IN  [i \in 1..(stop - p) |-> buf[p + i - 1]]
             \o (IF stop \in DOMAIN buf /\ buf[stop] = 0 THEN << >> ELSE BadStr)

RECURSIVE SumSeq(_)
SumSeq(s) == IF s = << >> THEN 0 ELSE Head(s) + SumSeq(Tail(s))

\* the last n elements of a sequence
Suffix(s, n) == IF n <= 0 THEN << >> ELSE SubSeq(s, Len(s) - Min(n, Len(s)) + 1, Len(s))


(***************************************************************************)
(* Inputs.  Character codes are ASCII.                                     *)
(***************************************************************************)
StrOne == << 111, 110, 101 >>
StrTwo == << 116, 119, 111 >>
StrThree == << 116, 104, 114, 101, 101 >>
StrFour == << 102, 111, 117, 114 >>
StrA == << 97 >>
StrB == << 98 >>
StrC == << 99 >>
StrK == << 107 >>
StrV == << 118 >>
StrW == << 119 >>
\* a name long enough to reach from one breadcrumb's reserved bytes to the
\* value-pointer table of the breadcrumb before it
StrLong == [i \in 1..(PtrSize * PtrSize) |-> 120]

Crumb(name, keys, values) == [name |-> name, meta_keys |-> keys, meta_values |-> values]

CrumbOne == Crumb(StrOne, << >>, << >>)
CrumbTwo == Crumb(StrTwo, << >>, << >>)
CrumbThree == Crumb(StrThree, << >>, << >>)
CrumbFour == Crumb(StrFour, << >>, << >>)
CrumbLong == Crumb(StrLong, << >>, << >>)
CrumbKV == Crumb(StrA, << StrK >>, << StrV >>)
CrumbKW == Crumb(StrA, << StrK >>, << StrW >>)

\* breadcrumbs without metadata, as in the tests of the byte ring
PlainCrumbs == { CrumbOne, CrumbTwo, CrumbThree, CrumbFour }
\* breadcrumbs with metadata and a long name
MetaCrumbs == { CrumbOne, CrumbKV, CrumbKW, CrumbLong }
AllCrumbs == PlainCrumbs \cup MetaCrumbs

(***************************************************************************)
(* forensics_config_t.  The capacities are scaled down from the defaults   *)
(* of forensics_config_init; fatal_should_halt is off, as in the tests.    *)
(***************************************************************************)
BaseConfig ==
    [ fatal_should_halt |-> FALSE,
      max_id_size_bytes |-> 64,
      max_context_depth |-> 3,
      max_formatted_message_size_bytes |-> 16,
      max_attribute_count |-> 3,
      attribute_buf_size_bytes |-> 16,
      max_backtrace_count |-> 2,
      max_breadcrumb_count |-> 2,
      breadcrumb_buf_size_bytes |-> 16 ]

VARIABLES
    s_config,                       \* forensics_config_t s_config
    NDEBUG,                         \* whether the build defines NDEBUG
    s_breadcrumbs,                  \* breadcrumb_t slots, index 0..max-1
    s_breadcrumbs_index_next,
    s_breadcrumbs_count,
    s_breadcrumbs_buf,              \* the byte ring, and the heap behind it
    s_breadcrumbs_buf_read_index,
    s_breadcrumbs_buf_write_index,
    s_attribute_keys,               \* char* per entry: offsets into s_attribute_buf
    s_attribute_values,
    s_attribute_count,
    s_attribute_buf,
    s_attribute_buf_used,
    s_tls_context_buf,              \* thread -> context_buffer_t
    s_context_buf_list,             \* head of the registry list (0: nullptr)
    s_report_mutex,                 \* std::mutex: the thread that owns it, 0 when free
    pc,                             \* thread -> its position in a locking call
    report,                         \* the report last handed to the handler
    status,                         \* "running", "stuck", "halted" or "fault"
    steps,                          \* operations so far
    hist,                           \* history: the coalesced representable adds
    open,                           \* history: thread -> labels begun and not ended
    unbalanced,                     \* history: threads that ended with no label open
    last,                           \* history: the last operation and its inputs
    pinned,                         \* history: the first report, kept for comparison
    heap,                           \* block -> calls of the alloc and free callbacks on it
    exited                          \* the threads that have exited

crumbVars == << s_breadcrumbs, s_breadcrumbs_index_next, s_breadcrumbs_count,
                s_breadcrumbs_buf, s_breadcrumbs_buf_read_index,
                s_breadcrumbs_buf_write_index, hist >>
attrVars == << s_attribute_keys, s_attribute_values, s_attribute_count,
               s_attribute_buf, s_attribute_buf_used >>
ctxVars == << s_tls_context_buf, s_context_buf_list, open, unbalanced >>
reportVars == << report, pinned >>
lockVars == << s_report_mutex, pc >>
lifeVars == << heap, exited >>
vars == << s_config, NDEBUG, lifeVars, crumbVars, attrVars, ctxVars, reportVars, lockVars, status, steps, last >>

(***************************************************************************)
(* The breadcrumb ring.                                                    *)
(***************************************************************************)
\* a slot of s_breadcrumbs that holds no breadcrumb: breadcrumb_deque clears
\* a slot to this; a slot never written holds whatever malloc returned
EmptySlot ==
    [ name |-> NullPtr, meta_keys |-> NullPtr, meta_values |-> NullPtr,
      meta_count |-> 0, count |-> 0, buf_size |-> 0 ]

\* the ring state the helpers below work on
Ring ==
    [ crumbs |-> s_breadcrumbs,
      index_next |-> s_breadcrumbs_index_next,
      count |-> s_breadcrumbs_count,
      read |-> s_breadcrumbs_buf_read_index,
      write |-> s_breadcrumbs_buf_write_index ]

\* bytes that forensics_add_breadcrumb writes, counted from the allocation
WriteExtent(c) ==
    PtrSize * (PtrSize * Len(c.meta_keys)) * 2 + SizeBytes(c.name)
    + SumSeq([i \in 1..Len(c.meta_keys) |->
                SizeBytes(c.meta_keys[i]) + SizeBytes(c.meta_values[i])])

\* required_size of forensics_add_breadcrumb
required_size(c) ==
    PtrSize * Len(c.meta_keys) * 2 + SizeBytes(c.name)
    + SumSeq([i \in 1..Len(c.meta_keys) |->
                SizeBytes(c.meta_keys[i]) + SizeBytes(c.meta_values[i])])

\* cells modelled behind the end of the byte ring: as far as the writes of
\* a breadcrumb that fits a budget of size_bytes can reach
OverrunCells(size_bytes) ==
    LET e == { WriteExtent(c) : c \in { x \in AllCrumbs : required_size(x) <= size_bytes } }
    IN  IF e = {} THEN 0 ELSE CHOOSE m \in e : \A x \in e : x <= m

\* an allocation that wraps to offset 0 without looking at the read cursor
breadcrumb_buf_alloc_unchecked(size_bytes, ring) ==
    IF ring.write + size_bytes > s_config.breadcrumb_buf_size_bytes
    THEN [ok |-> TRUE, at |-> 0, ring |-> [ring EXCEPT !.write = size_bytes]]
    ELSE [ok |-> TRUE, at |-> ring.write,
          ring |-> [ring EXCEPT !.write = ring.write + size_bytes]]

\* breadcrumb_buf_alloc(size_bytes) on the cursors of ring
breadcrumb_buf_alloc(size_bytes, ring) ==
    LET failed == [ok |-> FALSE, at |-> NullPtr, ring |-> ring] IN
    IF ring.write < ring.read /\ ring.write + size_bytes > ring.read
    THEN failed
    ELSE IF ring.write + size_bytes > s_config.breadcrumb_buf_size_bytes
    THEN IF size_bytes > ring.read
         THEN failed
         ELSE [ok |-> TRUE, at |-> 0, ring |-> [ring EXCEPT !.write = size_bytes]]
    ELSE [ok |-> TRUE, at |-> ring.write,
          ring |-> [ring EXCEPT !.write = ring.write + size_bytes]]

breadcrumb_deque(ring) ==
    LET first_index == (ring.index_next + s_config.max_breadcrumb_count - ring.count)
                         % s_config.max_breadcrumb_count
        moved == ring.read + ring.crumbs[first_index].buf_size
    IN  [ring EXCEPT
            !.read = IF moved >= s_config.breadcrumb_buf_size_bytes THEN 0 ELSE moved,
            !.crumbs = [ring.crumbs EXCEPT ![first_index] = EmptySlot],
            !.count = ring.count - 1]

RECURSIVE EvictUntilAlloc(_, _)
\* while (alloc == nullptr) { breadcrumb_deque(); alloc = breadcrumb_buf_alloc(..); }
\* With no breadcrumb left the loop goes on: breadcrumb_deque then works on a
\* slot that holds no breadcrumb (a cleared slot has buf_size 0, so the read
\* cursor stays and the allocation fails again; a slot never written is an
\* uninitialised read).  The call does not return: ok is FALSE.
EvictUntilAlloc(size_bytes, ring) ==
    IF ring.count = 0
    THEN [ok |-> FALSE, at |-> NullPtr, ring |-> ring]
    ELSE LET a == breadcrumb_buf_alloc(size_bytes, breadcrumb_deque(ring)) IN
         IF a.ok THEN a ELSE EvictUntilAlloc(size_bytes, a.ring)

\* the copy of one breadcrumb into the byte ring: the name, then per pair the
\* key, the value and their two table entries
RECURSIVE WriteMeta(_, _, _, _, _, _)
WriteMeta(buf, c, index, ptr, out_meta_keys, out_meta_values) ==
    IF index >= Len(c.meta_keys) THEN buf
    ELSE LET out_key == ptr
             out_value == out_key + SizeBytes(c.meta_keys[index + 1])
             b1 == WriteBytes(buf, out_key, CBytes(c.meta_keys[index + 1]))
             b2 == WriteBytes(b1, out_value, CBytes(c.meta_values[index + 1]))
             b3 == WriteBytes(b2, out_meta_keys + PtrSize * index, PtrBytes(out_key))
             b4 == WriteBytes(b3, out_meta_values + PtrSize * index, PtrBytes(out_value))
         IN  WriteMeta(b4, c, index + 1,
                       out_value + SizeBytes(c.meta_values[index + 1]),
                       out_meta_keys, out_meta_values)

\* char** arithmetic: out_meta_keys + sizeof(char**) * meta_count advances by
\* that many pointers, PtrSize bytes each
out_meta_values_of(alloc, meta_count) == alloc + PtrSize * (PtrSize * meta_count)

out_name_of(alloc, meta_count) ==
    out_meta_values_of(alloc, meta_count) + PtrSize * (PtrSize * meta_count)

CopyCrumb(buf, c, alloc) ==
    LET out_name == out_name_of(alloc, Len(c.meta_keys)) IN
    WriteMeta(WriteBytes(buf, out_name, CBytes(c.name)), c, 0,
              out_name + SizeBytes(c.name), alloc,
              out_meta_values_of(alloc, Len(c.meta_keys)))

\* the breadcrumb_t that forensics_add_breadcrumb stores for c at alloc
NewSlot(c, alloc) ==
    [ name |-> out_name_of(alloc, Len(c.meta_keys)),
      meta_keys |-> IF Len(c.meta_keys) > 0 THEN alloc ELSE NullPtr,
      meta_values |-> IF Len(c.meta_keys) > 0
                      THEN out_meta_values_of(alloc, Len(c.meta_keys)) ELSE NullPtr,
      meta_count |-> Len(c.meta_keys),
      count |-> 1,
      buf_size |-> required_size(c) ]

\* what a reader of a forensics_breadcrumb_t sees through its pointers
CrumbView(buf, slot) ==
    [ name |-> ReadStr(buf, slot.name),
      meta_keys |-> [i \in 1..slot.meta_count |->
                        ReadStr(buf, ReadPtr(buf, slot.meta_keys + PtrSize * (i - 1)))],
      meta_values |-> [i \in 1..slot.meta_count |->
                        ReadStr(buf, ReadPtr(buf, slot.meta_values + PtrSize * (i - 1)))],
      count |-> slot.count ]

\* the comparison of forensics_add_breadcrumb against the last breadcrumb
SameAsLast(c) ==
    /\ s_breadcrumbs_count > 0
    /\ LET last_index == (s_breadcrumbs_index_next + s_config.max_breadcrumb_count - 1)
                            % s_config.max_breadcrumb_count
           prev == s_breadcrumbs[last_index]
       IN  /\ prev.meta_count = Len(c.meta_keys)
           /\ ReadStr(s_breadcrumbs_buf, prev.name) = c.name
           /\ \A index \in 0..(Len(c.meta_keys) - 1) :
                /\ ReadStr(s_breadcrumbs_buf,
                           ReadPtr(s_breadcrumbs_buf, prev.meta_keys + PtrSize * index))
                     = c.meta_keys[index + 1]
                /\ ReadStr(s_breadcrumbs_buf,
                           ReadPtr(s_breadcrumbs_buf, prev.meta_values + PtrSize * index))
                     = c.meta_values[index + 1]

\* the outcome of forensics_add_breadcrumb(c) in the current state
AddOutcome(c) ==
    LET size == required_size(c)
        ring1 == IF s_breadcrumbs_count >= s_config.max_breadcrumb_count
                 THEN breadcrumb_deque(Ring) ELSE Ring
        a1 == breadcrumb_buf_alloc(size, ring1)
        a == IF a1.ok \/ size > s_config.breadcrumb_buf_size_bytes
             THEN a1 ELSE EvictUntilAlloc(size, ring1)
    IN  IF s_config.max_breadcrumb_count = 0
        THEN [kind |-> "disabled", ring |-> Ring, buf |-> s_breadcrumbs_buf]
        ELSE IF SameAsLast(c)
        THEN [kind |-> "coalesced",
              ring |-> [Ring EXCEPT !.crumbs[(s_breadcrumbs_index_next
                                               + s_config.max_breadcrumb_count - 1)
                                               % s_config.max_breadcrumb_count].count = @ + 1],
              buf |-> s_breadcrumbs_buf]
        ELSE IF ~a.ok /\ size > s_config.breadcrumb_buf_size_bytes
        THEN [kind |-> "dropped", ring |-> a.ring, buf |-> s_breadcrumbs_buf]
        ELSE IF ~a.ok
        THEN [kind |-> "stuck", ring |-> a.ring, buf |-> s_breadcrumbs_buf]
        ELSE [kind |-> "stored",
              ring |-> [a.ring EXCEPT
                          !.crumbs[a.ring.index_next] = NewSlot(c, a.at),
                          !.index_next = (a.ring.index_next + 1) % s_config.max_breadcrumb_count,
                          !.count = a.ring.count + 1],
              buf |-> CopyCrumb(s_breadcrumbs_buf, c, a.at)]

\* the breadcrumbs a report holds: s_report_breadcrumbs[0..count-1], oldest
\* first, as the handler reads them
BreadcrumbsIn(buf) ==
    [index \in 1..Max(s_breadcrumbs_count, 0) |->
        CrumbView(buf,
                  s_breadcrumbs[(s_breadcrumbs_index_next + s_config.max_breadcrumb_count
                                  - s_breadcrumbs_count + (index - 1))
                                 % s_config.max_breadcrumb_count])]

ReportBreadcrumbs == BreadcrumbsIn(s_breadcrumbs_buf)

\* the content of an add, in the shape of CrumbView
Content(c, n) ==
    [ name |-> c.name, meta_keys |-> c.meta_keys, meta_values |-> c.meta_values,
      count |-> n ]

\* history of the adds that can be recorded at all (capacity not zero, size
\* within the byte budget), consecutive equal adds counted on one entry
HistAfter(c) ==
    IF s_config.max_breadcrumb_count = 0
       \/ required_size(c) > s_config.breadcrumb_buf_size_bytes
    THEN hist
    ELSE IF hist # << >> /\ hist[Len(hist)] = Content(c, hist[Len(hist)].count)
    THEN [hist EXCEPT ![Len(hist)].count = @ + 1]
    ELSE Append(hist, Content(c, 1))

\* the body of forensics_add_breadcrumb, from behind the lock_guard to the
\* return; no path of it reaches the assertion machinery
AddBreadcrumbBody(c) ==
    /\ status = "running"
    /\ steps < MaxOps
    /\ LET out == AddOutcome(c) IN
       /\ s_breadcrumbs' = out.ring.crumbs
       /\ s_breadcrumbs_index_next' = out.ring.index_next
       /\ s_breadcrumbs_count' = out.ring.count
       /\ s_breadcrumbs_buf_read_index' = out.ring.read
       /\ s_breadcrumbs_buf_write_index' = out.ring.write
       /\ s_breadcrumbs_buf' = out.buf
       /\ status' = IF out.kind = "stuck" THEN "stuck" ELSE status
       /\ last' = [op |-> "add", crumb |-> c, kind |-> out.kind,
                   before |-> Ring, view |-> ReportBreadcrumbs,
                   calls |-> 0, handled |-> 0]
    /\ hist' = HistAfter(c)
    /\ steps' = steps + 1
    /\ UNCHANGED << s_config, NDEBUG, lifeVars, attrVars, ctxVars, reportVars >>

\* forensics_add_breadcrumb(name, meta_keys, meta_values, meta_count) as one
\* step: s_report_mutex is taken on entry and released on return
forensics_add_breadcrumb(c) ==
    /\ s_report_mutex = 0
    /\ AddBreadcrumbBody(c)
    /\ UNCHANGED lockVars

(***************************************************************************)
(* The attribute store.                                                    *)
(***************************************************************************)
\* a null value pointer: the request to clear the key
Absent == << 0 >>

AttrKeys == { StrA, StrB, StrC }
AttrValues == { StrV, StrW, Absent }

Store ==
    [ keys |-> s_attribute_keys,
      values |-> s_attribute_values,
      count |-> s_attribute_count,
      buf |-> s_attribute_buf,
      used |-> s_attribute_buf_used ]

RECURSIVE FindFrom(_, _, _)
FindFrom(st, key, index) ==
    IF index >= st.count THEN 0 - 1
    ELSE IF ReadStr(st.buf, st.keys[index]) = key THEN index
    ELSE FindFrom(st, key, index + 1)

attribute_find(st, key) == FindFrom(st, key, 0)

\* memcpy(dst, src, n) with dst below src, copied from the first byte up
MemcpyForward(buf, dst, src, n) ==
    [i \in DOMAIN buf |->
        IF dst <= i /\ i < dst + n THEN buf[src + (i - dst)] ELSE buf[i]]

\* the same call copied from the last byte down: where the two regions
\* overlap, a source byte is read after it was overwritten
MemcpyBackward(buf, dst, src, n) ==
    [i \in DOMAIN buf |->
        IF dst <= i /\ i < dst + n
        THEN LET k == i - dst
                 j == k + (src - dst) * (((n - 1) - k) \div (src - dst))
             IN  buf[src + j]
        ELSE buf[i]]

\* attribute_clear(index).  memcpy is called on regions that overlap as soon
\* as more bytes follow the removed entry than the entry is long; the effect
\* of memcpy is then undefined, and `backward` picks the copy order.
attribute_clear(st, index, backward) ==
    LET key == st.keys[index]
        value == st.values[index]
        key_size_bytes == SizeBytes(ReadStr(st.buf, key))
        value_size_bytes == SizeBytes(ReadStr(st.buf, value))
        size_bytes == key_size_bytes + value_size_bytes
        key_offset == key
        bytes_to_copy == st.used - key_offset - size_bytes
        copied == IF bytes_to_copy <= 0 THEN st.buf
                  ELSE IF backward /\ bytes_to_copy > size_bytes
                  THEN MemcpyBackward(st.buf, key, key + size_bytes, bytes_to_copy)
                  ELSE MemcpyForward(st.buf, key, key + size_bytes, bytes_to_copy)
    IN  [st EXCEPT
            !.buf = copied,
            !.keys = [dest_index \in DOMAIN st.keys |->
                        IF index <= dest_index /\ dest_index + 1 < st.count
                        THEN st.keys[dest_index + 1] - size_bytes
                        ELSE st.keys[dest_index]],
            !.values = [dest_index \in DOMAIN st.values |->
                        IF index <= dest_index /\ dest_index + 1 < st.count
                        THEN st.values[dest_index + 1] - size_bytes
                        ELSE st.values[dest_index]],
            !.count = st.count - 1]

\* an append that asserts the entry count only
AppendFitsCountOnly(st, key, value) ==
    st.count < s_config.max_attribute_count

\* the two FORENSICS_ASSERTF conditions of attribute_append
AppendFits(st, key, value) ==
    /\ st.count < s_config.max_attribute_count
    /\ s_config.attribute_buf_size_bytes - st.used >= SizeBytes(key) + SizeBytes(value)

\* attribute_append(key, value) once both assertions have passed
attribute_append(st, key, value) ==
    LET key_in_buf == st.used
        value_in_buf == key_in_buf + SizeBytes(key)
    IN  [st EXCEPT
            !.buf = WriteBytes(WriteBytes(st.buf, key_in_buf, CBytes(key)),
                               value_in_buf, CBytes(value)),
            !.used = st.used + SizeBytes(key) + SizeBytes(value),
            !.keys[st.count] = key_in_buf,
            !.values[st.count] = value_in_buf,
            !.count = st.count + 1]

\* the outcome of forensics_set_attribute(key, value).  A failed assertion of
\* attribute_append calls forensics_report_assert_failure, which locks
\* s_report_mutex while forensics_set_attribute holds it: the call does not
\* return ("stuck").
SetOutcome(key, value, backward) ==
    LET index == attribute_find(Store, key)
        cleared == IF index # 0 - 1 THEN attribute_clear(Store, index, backward) ELSE Store
    IN  IF s_config.max_attribute_count = 0
        THEN [kind |-> "disabled", store |-> Store]
        ELSE IF value = Absent
        THEN [kind |-> "cleared", store |-> cleared]
        ELSE IF AppendFits(cleared, key, value)
        THEN [kind |-> "set", store |-> attribute_append(cleared, key, value)]
        ELSE [kind |-> "stuck", store |-> cleared]

\* the attributes of a report, as the handler reads them: (key, value) pairs
ReportAttributes ==
    [i \in 1..Max(s_attribute_count, 0) |->
        << ReadStr(s_attribute_buf, s_attribute_keys[i - 1]),
           ReadStr(s_attribute_buf, s_attribute_values[i - 1]) >>]

\* whether memcpy of attribute_clear would run on overlapping regions
ClearOverlaps(key) ==
    LET index == attribute_find(Store, key) IN
    /\ index # 0 - 1
    /\ LET size_bytes == SizeBytes(ReadStr(s_attribute_buf, s_attribute_keys[index]))
                         + SizeBytes(ReadStr(s_attribute_buf, s_attribute_values[index]))
       IN  s_attribute_buf_used - s_attribute_keys[index] - size_bytes > size_bytes

\* the body of forensics_set_attribute, from behind the lock_guard to the
\* return.  The assertions of attribute_append call
\* forensics_report_assert_failure, which locks s_report_mutex again on the
\* thread that owns it: that call never gets to the handler ("stuck").
SetAttributeBody(key, value, backward) ==
    /\ status = "running"
    /\ steps < MaxOps
    /\ backward => (s_config.max_attribute_count # 0 /\ ClearOverlaps(key))
    /\ LET out == SetOutcome(key, value, backward) IN
       /\ s_attribute_keys' = out.store.keys
       /\ s_attribute_values' = out.store.values
       /\ s_attribute_count' = out.store.count
       /\ s_attribute_buf' = out.store.buf
       /\ s_attribute_buf_used' = out.store.used
       /\ status' = IF out.kind = "stuck" THEN "stuck" ELSE status
       /\ last' = [op |-> "set", key |-> key, value |-> value, kind |-> out.kind,
                   before |-> ReportAttributes,
                   calls |-> IF out.kind = "stuck" THEN 1 ELSE 0, handled |-> 0]
    /\ steps' = steps + 1
    /\ UNCHANGED << s_config, NDEBUG, lifeVars, crumbVars, ctxVars, reportVars >>

\* forensics_set_attribute(key, value) as one step
forensics_set_attribute(key, value, backward) ==
    /\ s_report_mutex = 0
    /\ SetAttributeBody(key, value, backward)
    /\ UNCHANGED lockVars

(***************************************************************************)
(* Report assembly: forensics_report_assert_failure.                       *)
(***************************************************************************)
NoReport == [id |-> BadStr, delivered |-> FALSE]

ChSlash == 47
ChBackslash == 92
ChDash == 45

\* "<none>"
StrNone == << 60, 110, 111, 110, 101, 62 >>
StrG == << 103 >>
StrL == << 108 >>
StrP == << 112 >>
Labels == { StrG, StrL, StrP }

\* source paths: a.c  d/a.c  d\a.c  d/e\a.c  /a.c
FilePlain == << 97, 46, 99 >>
FileSlash == << 100, ChSlash >> \o FilePlain
FileBackslash == << 100, ChBackslash >> \o FilePlain
FileMixed == << 100, ChSlash, 101, ChBackslash >> \o FilePlain
FileRoot == << ChSlash >> \o FilePlain

StrF == << 102 >>
StrX == << 120 >>
\* "x%d"
StrXPctD == << 120, 37, 100 >>
StrEmpty == << >>

\* an assertion call site: what the FORENSICS_ASSERT macros pass on
Site(file, line, func, fatal, format) ==
    [file |-> file, line |-> line, func |-> func, fatal |-> fatal, format |-> format]

\* the FORENSICS_ASSERTF of forensics_context_end; its __FILE__, __func__ and
\* message are abbreviated to f.c, e and u
UnderflowSite == Site(<< 102, 46, 99 >>, 359, << 101 >>, TRUE, << 117 >>)

RECURSIVE Format(_, _)
\* vsnprintf of a format with one int argument in 0..9: %d (37, 100) prints
\* the digit (48 + the argument)
Format(format, arg) ==
    IF format = << >> THEN << >>
    ELSE IF Len(format) >= 2 /\ format[1] = 37 /\ format[2] = 100
    THEN << 48 + arg >> \o Format(SubSeq(format, 3, Len(format)), arg)
    ELSE << format[1] >> \o Format(Tail(format), arg)

\* what snprintf(buf, size, ...) followed by buf[size - 1] = 0 leaves in buf
\* for size >= 1: at most size - 1 characters
Truncate(str, size) == SubSeq(str, 1, Min(Len(str), size - 1))

\* strrchr(s, ch) as a 1-based position, 0 for a null result
StrRChr(str, ch) ==
    LET at == { i \in 1..Len(str) : str[i] = ch } IN
    IF at = {} THEN 0 ELSE CHOOSE i \in at : \A j \in at : j <= i

\* the file_basename of forensics_report_assert_failure
file_basename(file) ==
    LET slash == StrRChr(file, ChSlash)
        sep == IF slash = 0 THEN StrRChr(file, ChBackslash) ELSE slash
    IN  IF sep = 0 \/ sep = 1 THEN file
        ELSE SubSeq(file, sep + 1, Len(file))

\* a report that reads one stack shared by all threads
ReportContextsShared(t) ==
    LET first == CHOOSE u \in Threads : \A v \in Threads : u <= v IN
    [i \in 1..Max(s_tls_context_buf[first].count, 0) |->
        s_tls_context_buf[first].stack[i - 1]]

\* the context stack of a thread as a report shows it
ReportContexts(t) ==
    [i \in 1..Max(s_tls_context_buf[t].count, 0) |-> s_tls_context_buf[t].stack[i - 1]]

\* the context string of the id
IdContext(t) ==
    IF s_tls_context_buf[t].count > 0
    THEN s_tls_context_buf[t].stack[s_tls_context_buf[t].count - 1]
    ELSE StrNone

\* the arguments of snprintf(s_report_id, ..., "%s-%s-%s-%s", ...)
IdText(context, base, func, format) ==
    context \o << ChDash >> \o base \o << ChDash >> \o func \o << ChDash >> \o format

\* a fingerprint that also folds in the line of the call site
ReportIdWithLine(t, site) ==
    IF s_config.max_id_size_bytes = 0 THEN BadStr
    ELSE Truncate(IdText(IdContext(t), file_basename(site.file), site.func, site.format)
                    \o << ChDash, 48 + site.line >>,
                  s_config.max_id_size_bytes)

\* a fingerprint that leaves the format string out
ReportIdWithoutFormat(t, site) ==
    IF s_config.max_id_size_bytes = 0 THEN BadStr
    ELSE Truncate(IdText(IdContext(t), file_basename(site.file), site.func, << >>),
                  s_config.max_id_size_bytes)

\* the id left in s_report_id; with max_id_size_bytes = 0 nothing is written
\* to the buffer and the id reads as garbage
ReportId(t, site) ==
    IF s_config.max_id_size_bytes = 0 THEN BadStr
    ELSE Truncate(IdText(IdContext(t), file_basename(site.file), site.func, site.format),
                  s_config.max_id_size_bytes)

ReportFormatted(site, arg) ==
    IF s_config.max_formatted_message_size_bytes = 0 THEN BadStr
    ELSE Truncate(Format(site.format, arg), s_config.max_formatted_message_size_bytes)

\* the index of buf[size - 1] = 0: size is an unsigned int, so the
\* subtraction wraps at 2^32.  The 32-bit value is kept as two 16-bit halves
\* << high, low >>, the subtraction borrowing from the high half.
TerminatorIndex(size) ==
    LET low == size % (2 ^ 16)
        high == size \div (2 ^ 16)
    IN  IF low = 0 THEN << (high - 1) % (2 ^ 16), (2 ^ 16) - 1 >>
        ELSE << high, low - 1 >>

\* whether a 32-bit index, in halves, is below an unsigned size
IndexBelow(index, size) ==
    \/ index[1] < size \div (2 ^ 16)
    \/ index[1] = size \div (2 ^ 16) /\ index[2] < size % (2 ^ 16)

\* buf[size - 1] = 0 with an unsigned size of 0 writes far outside the buffer
ReportWritesOutside ==
    s_config.max_formatted_message_size_bytes = 0 \/ s_config.max_id_size_bytes = 0

\* the bytes behind the byte ring belong to other heap blocks
\* (s_backtrace_buf is allocated right after it); capturing the backtrace
\* writes such a block
ClobberOverrun(buf) ==
    [i \in DOMAIN buf |->
        IF i >= s_config.breadcrumb_buf_size_bytes THEN Uninit ELSE buf[i]]

\* the array pointers of the report: each is the engine's buffer when the
\* count it goes with is positive, nullptr otherwise
ReportPointers(t, frames) ==
    [ context_stack |-> IF s_tls_context_buf[t].count > 0 THEN "stack" ELSE "nullptr",
      attribute_keys |-> IF s_attribute_count > 0 THEN "s_attribute_keys" ELSE "nullptr",
      attribute_values |-> IF s_attribute_count > 0 THEN "s_attribute_values"
                           ELSE "nullptr",
      breadcrumbs |-> IF s_breadcrumbs_count > 0 THEN "s_report_breadcrumbs"
                      ELSE "nullptr",
      backtrace |-> IF frames > 0 THEN "s_backtrace_buf" ELSE "nullptr" ]

\* the forensics_report_t handed to the handler, read by the handler with the
\* byte ring and the heap behind it as `buf`
BuildReport(t, site, arg, frames, buf) ==
    [ delivered |-> TRUE,
      thread |-> t,
      id |-> ReportId(t, site),
      file |-> site.file,
      line |-> site.line,
      func |-> site.func,
      format |-> site.format,
      formatted |-> ReportFormatted(site, arg),
      fatal |-> site.fatal,
      context_stack |-> ReportContexts(t),
      context_count |-> s_tls_context_buf[t].count,
      attributes |-> ReportAttributes,
      attribute_count |-> s_attribute_count,
      breadcrumbs |-> BreadcrumbsIn(buf),
      breadcrumb_count |-> s_breadcrumbs_count,
      backtrace_count |-> frames,
      pointers |-> ReportPointers(t, frames) ]

\* the halt decision without the fatal_should_halt setting
StatusAfterReportAnyFatal(site, crash) ==
    IF crash THEN "fault"
    ELSE IF site.fatal THEN "halted"
    ELSE status

\* the state after forensics_report_assert_failure: "fault" when a write
\* outside a buffer hits unmapped memory, "halted" after panic()
StatusAfterReport(site, crash) ==
    IF crash THEN "fault"
    ELSE IF site.fatal /\ s_config.fatal_should_halt THEN "halted"
    ELSE status

\* the body of forensics_report_assert_failure on thread t.  frames is what
\* forensics_private_backtrace returns; crash and clobber pick the outcome of
\* the writes outside a buffer (none is possible without such a write).
\* A report changes no state another report reads, so every pair of reports
\* of a run is also a pair (first report, later report) of some run: pinned
\* keeps the first one.
ReportBody(t, site, arg, frames, crash, clobber) ==
    /\ frames \in 0..s_config.max_backtrace_count
    /\ crash => ReportWritesOutside
    /\ clobber => (~crash /\ frames > 0
                   /\ ClobberOverrun(s_breadcrumbs_buf) # s_breadcrumbs_buf)
    /\ s_breadcrumbs_buf' = IF clobber THEN ClobberOverrun(s_breadcrumbs_buf)
                            ELSE s_breadcrumbs_buf
    /\ report' = IF crash THEN report
                 ELSE BuildReport(t, site, arg, frames, s_breadcrumbs_buf')
    /\ pinned' = IF crash \/ pinned.delivered THEN pinned ELSE report'
    /\ status' = StatusAfterReport(site, crash)
    /\ UNCHANGED << s_config, NDEBUG, lifeVars, s_breadcrumbs, s_breadcrumbs_index_next, s_breadcrumbs_count,
                    s_breadcrumbs_buf_read_index, s_breadcrumbs_buf_write_index, hist,
                    attrVars >>

\* a direct call of forensics_report_assert_failure, from behind the
\* lock_guard to the call of the handler and the halt
ReportFailureBody(t, site, arg, frames, crash, clobber) ==
    /\ status = "running"
    /\ steps < MaxOps
    /\ ReportBody(t, site, arg, frames, crash, clobber)
    /\ last' = [op |-> "report", thread |-> t, site |-> site, arg |-> arg,
                calls |-> 1, handled |-> IF crash THEN 0 ELSE 1]
    /\ steps' = steps + 1
    /\ UNCHANGED ctxVars

\* forensics_report_assert_failure(file, line, func, fatal, expr, format, ...)
\* as one step
forensics_report_assert_failure(t, site, arg, frames, crash, clobber) ==
    /\ s_report_mutex = 0
    /\ ReportFailureBody(t, site, arg, frames, crash, clobber)
    /\ UNCHANGED lockVars

(***************************************************************************)
(* The context stacks.                                                     *)
(***************************************************************************)
\* the blocks forensics_init obtains from the alloc callback, one per buffer
InitBlocks ==
    { << name, 0 >> : name \in { "s_report_id", "s_report_formatted_msg",
                                 "s_report_breadcrumbs", "s_attribute_keys",
                                 "s_attribute_values", "s_attribute_buf",
                                 "s_breadcrumbs", "s_breadcrumbs_buf",
                                 "s_backtrace_buf" } }

\* the block behind the context stack of thread t
StackBlock(t) == << "stack", t >>

Blocks == InitBlocks \cup { StackBlock(t) : t \in Threads }

\* forensics_alloc: one call of the alloc callback, which yields the block
forensics_alloc(block, h) == [h EXCEPT ![block].allocs = @ + 1]

\* forensics_free: one call of the free callback on the block
forensics_free(block, h) == [h EXCEPT ![block].frees = @ + 1]

\* a thread_local context_buffer_t before its first use: zero-initialised
FreshContextBuf ==
    [ count |-> 0, capacity |-> 0, overflow_count |-> 0, initialized |-> FALSE,
      stack |-> << >>, prev |-> 0, next |-> 0 ]

\* context_buffer_init of thread t's buffer: the fields, then the insertion at
\* the head of the registry list
context_buffer_init(t) ==
    [ count |-> 0,
      capacity |-> s_config.max_context_depth,
      overflow_count |-> 0,
      initialized |-> TRUE,
      stack |-> [i \in 0..(s_config.max_context_depth - 1) |-> BadStr],
      prev |-> IF s_context_buf_list # 0 THEN t ELSE 0,
      next |-> s_context_buf_list ]

\* a check that sets the buffer up on every begin
AlwaysNeedsInit(t) == TRUE

\* the first-time check of forensics_context_begin
NeedsInit(t) == ~s_tls_context_buf[t].initialized

\* the buffer of thread t once forensics_context_begin made sure it is set up
ReadyBuf(t) ==
    IF NeedsInit(t) THEN context_buffer_init(t)
    ELSE s_tls_context_buf[t]

\* no overflow check at all
BeginNeverOverflows(ctx_buf) == FALSE

\* an overflow check that lets one label too many through
BeginOverflowsLate(ctx_buf) ==
    ctx_buf.count > ctx_buf.capacity

\* the overflow check of forensics_context_begin
BeginOverflows(ctx_buf) ==
    ctx_buf.count + 1 > ctx_buf.capacity

\* an assertion that lets an empty stack pass
EndCountNotNegative(ctx_buf) ==
    ctx_buf.count >= 0

\* the condition asserted by forensics_context_end
EndCountPositive(ctx_buf) ==
    ctx_buf.count > 0

\* forensics_context_begin(name) on thread t
forensics_context_begin(t, name) ==
    /\ status = "running"
    /\ steps < MaxOps
    /\ LET ctx_buf == ReadyBuf(t)
           new_count == ctx_buf.count + 1
       IN  /\ s_tls_context_buf' =
                [s_tls_context_buf EXCEPT ![t] =
                    IF BeginOverflows(ctx_buf)
                    THEN [ctx_buf EXCEPT !.overflow_count = @ + 1]
                    ELSE [ctx_buf EXCEPT
                            !.stack = [i \in DOMAIN ctx_buf.stack |->
                                         IF i = ctx_buf.count THEN name
                                         ELSE ctx_buf.stack[i]],
                            !.count = new_count]]
           /\ last' = [op |-> "begin", thread |-> t, name |-> name,
                       wrote |-> IF BeginOverflows(ctx_buf) THEN 0 - 2
                                 ELSE ctx_buf.count,
                       before |-> s_tls_context_buf[t],
                       calls |-> 0, handled |-> 0]
    /\ s_context_buf_list' = IF NeedsInit(t) THEN t ELSE s_context_buf_list
    /\ heap' = IF NeedsInit(t) THEN forensics_alloc(StackBlock(t), heap) ELSE heap
    /\ open' = [open EXCEPT ![t] = Append(@, name)]
    /\ steps' = steps + 1
    /\ UNCHANGED << s_config, NDEBUG, exited, crumbVars, attrVars, reportVars, lockVars, status,
                    unbalanced >>

\* forensics_context_end() on thread t.  On underflow the assertion reports
\* through forensics_report_assert_failure; unless that halts the process the
\* count is decremented all the same.
forensics_context_end(t, frames, crash, clobber) ==
    /\ status = "running"
    /\ steps < MaxOps
    /\ LET ctx_buf == s_tls_context_buf[t] IN
       IF ctx_buf.overflow_count > 0
       THEN /\ s_tls_context_buf' = [s_tls_context_buf EXCEPT ![t].overflow_count = @ - 1]
            /\ frames = 0 /\ ~crash /\ ~clobber
            /\ last' = [op |-> "end", thread |-> t, kind |-> "absorbed",
                        before |-> ctx_buf, calls |-> 0, handled |-> 0]
            /\ UNCHANGED << s_config, NDEBUG, lifeVars, crumbVars, attrVars, reportVars, status >>
       ELSE IF EndCountPositive(ctx_buf)
       THEN /\ s_tls_context_buf' = [s_tls_context_buf EXCEPT ![t].count = @ - 1]
            /\ frames = 0 /\ ~crash /\ ~clobber
            /\ last' = [op |-> "end", thread |-> t, kind |-> "popped",
                        before |-> ctx_buf, calls |-> 0, handled |-> 0]
            /\ UNCHANGED << s_config, NDEBUG, lifeVars, crumbVars, attrVars, reportVars, status >>
       ELSE /\ s_report_mutex = 0
            /\ ReportBody(t, UnderflowSite, 0, frames, crash, clobber)
            /\ s_tls_context_buf' =
                 IF status' = "running"
                 THEN [s_tls_context_buf EXCEPT ![t].count = @ - 1]
                 ELSE s_tls_context_buf
            /\ last' = [op |-> "end", thread |-> t, kind |-> "underflow",
                        before |-> ctx_buf,
                        calls |-> 1, handled |-> IF crash THEN 0 ELSE 1]
    /\ open' = [open EXCEPT ![t] = IF @ = << >> THEN @ ELSE SubSeq(@, 1, Len(@) - 1)]
    /\ unbalanced' = IF open[t] = << >> THEN unbalanced \cup { t } ELSE unbalanced
    /\ s_context_buf_list' = s_context_buf_list
    /\ steps' = steps + 1
    /\ UNCHANGED lockVars

\* a destructor that leaves the buffer of an exiting thread alone
KeepOnExit(ctx_buf, state) == state

\* context_buffer_destroy(ctx_buf) on the registry state (the buffers, the
\* list head, the heap): frees the stack and unlinks the buffer through its
\* prev and next links as context_buffer_init left them.  touched records a
\* write through a link into the buffer of a thread that has exited.
context_buffer_destroy(ctx_buf, state) ==
    LET this == state.bufs[ctx_buf]
        next == this.next
        prev == this.prev
        off == [state.bufs EXCEPT ![ctx_buf].stack = << >>,
                                  ![ctx_buf].initialized = FALSE]
        relinked == IF next # 0 THEN [off EXCEPT ![next].prev = prev] ELSE off
    IN  IF ~this.initialized THEN state
        ELSE IF state.list = ctx_buf
        THEN [ bufs |-> IF next # 0 THEN [off EXCEPT ![next].prev = 0] ELSE off,
               list |-> next,
               heap |-> forensics_free(StackBlock(ctx_buf), state.heap),
               touched |-> state.touched \/ next \in exited ]
        ELSE [ bufs |-> IF prev # 0 THEN [relinked EXCEPT ![prev].next = next]
                        ELSE relinked,
               list |-> state.list,
               heap |-> forensics_free(StackBlock(ctx_buf), state.heap),
               touched |-> state.touched \/ next \in exited
                                         \/ prev \in (exited \ { ctx_buf }) ]

\* the registry state as the variables hold it
RegistryState ==
    [ bufs |-> s_tls_context_buf, list |-> s_context_buf_list, heap |-> heap,
      touched |-> FALSE ]

\* context_buffer_t::~context_buffer_t, run for s_tls_context_buf when thread t
\* exits; the storage of the buffer is released with the thread.  A write
\* into the released buffer of another thread is undefined: it goes unnoticed
\* or faults (crash).
thread_exit(t, crash) ==
    /\ status = "running"
    /\ steps < MaxOps
    /\ t \notin exited
    /\ s_report_mutex # t
    /\ LET end == context_buffer_destroy(t, RegistryState) IN
        /\ crash => end.touched
        /\ s_tls_context_buf' = end.bufs
        /\ s_context_buf_list' = end.list
        /\ heap' = end.heap
        /\ status' = IF crash THEN "fault" ELSE "running"
    /\ exited' = exited \cup { t }
    /\ last' = [op |-> "exit", thread |-> t, calls |-> 0, handled |-> 0]
    /\ steps' = steps + 1
    /\ UNCHANGED << s_config, NDEBUG, crumbVars, attrVars, reportVars, lockVars, open,
                    unbalanced >>

\* the loop of forensics_shutdown over the registry: it destroys the head
\* until the list is empty.  It makes no progress on a head that is not
\* initialized, which context_buffer_destroy leaves in place.
RECURSIVE ShutdownLoop(_)
ShutdownLoop(state) ==
    IF state.list = 0 THEN state
    ELSE IF ~state.bufs[state.list].initialized
    THEN [state EXCEPT !.touched = @ \/ state.list \in exited]
    ELSE ShutdownLoop(context_buffer_destroy(state.list, state))

\* the frees of forensics_shutdown after the loop
RECURSIVE FreeAll(_, _)
FreeAll(blocks, h) ==
    IF blocks = { } THEN h
    ELSE LET block == CHOOSE b \in blocks : TRUE
         IN  FreeAll(blocks \ { block }, forensics_free(block, h))

\* forensics_shutdown().  The loop either empties the registry, and the
\* buffers of forensics_init are freed and the counters reset, or it spins on
\* a head it cannot remove.  Reading or writing the released buffer of a
\* thread that has exited is undefined: it finds the bytes the destructor
\* left, or faults (crash).
forensics_shutdown(crash) ==
    /\ status = "running"
    /\ steps < MaxOps
    /\ s_report_mutex = 0
    /\ LET end == ShutdownLoop(RegistryState)
           returns == end.list = 0 /\ ~crash
       IN   /\ crash => end.touched
            /\ s_tls_context_buf' = end.bufs
            /\ s_context_buf_list' = end.list
            /\ heap' = IF returns THEN FreeAll(InitBlocks, end.heap) ELSE end.heap
            /\ status' = IF crash THEN "fault"
                         ELSE IF returns THEN "shutdown" ELSE "stuck"
            /\ s_breadcrumbs_count' = IF returns THEN 0 ELSE s_breadcrumbs_count
            /\ s_breadcrumbs_index_next' = IF returns THEN 0 ELSE s_breadcrumbs_index_next
            /\ s_breadcrumbs_buf_read_index' =
                 IF returns THEN 0 ELSE s_breadcrumbs_buf_read_index
            /\ s_breadcrumbs_buf_write_index' =
                 IF returns THEN 0 ELSE s_breadcrumbs_buf_write_index
            /\ s_attribute_count' = IF returns THEN 0 ELSE s_attribute_count
            /\ s_attribute_buf_used' = IF returns THEN 0 ELSE s_attribute_buf_used
            /\ last' = [op |-> "shutdown", returned |-> returns,
                        calls |-> 0, handled |-> 0]
    /\ steps' = steps + 1
    /\ UNCHANGED << s_config, NDEBUG, exited, s_breadcrumbs, s_breadcrumbs_buf, hist,
                    s_attribute_keys, s_attribute_values, s_attribute_buf,
                    reportVars, lockVars, open, unbalanced >>

(***************************************************************************)
(* Initial states: forensics_init under a configuration.                   *)
(***************************************************************************)
InitBuild(config, ndebug) ==
    /\ s_config = config
    /\ NDEBUG = ndebug
    /\ s_breadcrumbs = [i \in 0..(config.max_breadcrumb_count - 1) |-> EmptySlot]
    /\ s_breadcrumbs_index_next = 0
    /\ s_breadcrumbs_count = 0
    /\ s_breadcrumbs_buf =
         [i \in 0..(config.breadcrumb_buf_size_bytes
                    + OverrunCells(config.breadcrumb_buf_size_bytes) - 1) |-> Uninit]
    /\ s_breadcrumbs_buf_read_index = 0
    /\ s_breadcrumbs_buf_write_index = 0
    /\ s_attribute_keys = [i \in 0..(config.max_attribute_count - 1) |-> NullPtr]
    /\ s_attribute_values = [i \in 0..(config.max_attribute_count - 1) |-> NullPtr]
    /\ s_attribute_count = 0
    /\ s_attribute_buf = [i \in 0..(config.attribute_buf_size_bytes - 1) |-> Uninit]
    /\ s_attribute_buf_used = 0
    /\ s_tls_context_buf = [t \in Threads |-> FreshContextBuf]
    /\ s_context_buf_list = 0
    /\ report = NoReport
    /\ pinned = NoReport
    /\ status = "running"
    /\ steps = 0
    /\ hist = << >>
    /\ open = [t \in Threads |-> << >>]
    /\ unbalanced = { }
    /\ s_report_mutex = 0
    /\ pc = [t \in Threads |-> [at |-> "idle"]]
    /\ last = [op |-> "init", calls |-> 0, handled |-> 0]
    /\ heap = [b \in Blocks |-> IF b \in InitBlocks THEN [allocs |-> 1, frees |-> 0]
                               ELSE [allocs |-> 0, frees |-> 0]]
    /\ exited = { }

\* forensics_init in a build that leaves NDEBUG undefined
InitWith(config) == InitBuild(config, FALSE)

\* call sites of the assertion macros
SiteFmt == Site(FilePlain, 1, StrF, FALSE, StrXPctD)
SiteFmtFatal == Site(FilePlain, 2, StrF, TRUE, StrXPctD)
SiteX == Site(FilePlain, 1, StrF, FALSE, StrX)
SiteEmpty == Site(FilePlain, 1, StrF, FALSE, StrEmpty)
SiteSlash == Site(FileSlash, 1, StrF, TRUE, StrX)
SiteBackslash == Site(FileBackslash, 1, StrF, FALSE, StrX)
SiteMixed == Site(FileMixed, 1, StrF, FALSE, StrX)
SiteRoot == Site(FileRoot, 1, StrF, FALSE, StrX)

\* the arguments a site's format consumes
ArgsOf(site) == IF site.format = StrXPctD THEN { 0, 1 } ELSE { 0 }

(***************************************************************************)
(* The breadcrumb ring on its own: adds and reports, over byte budgets of  *)
(* one entry (8), two entries (16), none (0) and a roomy one (160).        *)
(***************************************************************************)
CrumbConfigs ==
    { [BaseConfig EXCEPT !.max_breadcrumb_count = p[1],
                         !.breadcrumb_buf_size_bytes = p[2],
                         !.max_backtrace_count = 1] :
        p \in { << 2, 8 >>, << 1, 8 >>, << 2, 16 >>, << 3, 160 >>, << 0, 16 >>, << 2, 0 >> } }

InitCrumbs == \E config \in CrumbConfigs : InitWith(config)

NextCrumbs ==
    \/ \E c \in AllCrumbs : forensics_add_breadcrumb(c)
    \/ \E frames \in 0..1, clobber \in BOOLEAN :
         forensics_report_assert_failure(1, SiteX, 0, frames, FALSE, clobber)

SpecCrumbs == InitCrumbs /\ [][NextCrumbs]_vars

(***************************************************************************)
(* The attribute store on its own.                                         *)
(***************************************************************************)
AttrConfigs ==
    { [BaseConfig EXCEPT !.max_attribute_count = p[1],
                         !.attribute_buf_size_bytes = p[2],
                         !.max_backtrace_count = 0] :
        p \in { << 3, 16 >>, << 3, 12 >>, << 2, 8 >>, << 0, 8 >> } }

InitAttrs == \E config \in AttrConfigs : InitWith(config)

NextAttrs ==
    \/ \E key \in AttrKeys, value \in AttrValues, backward \in BOOLEAN :
         forensics_set_attribute(key, value, backward)
    \/ forensics_report_assert_failure(1, SiteX, 0, 0, FALSE, FALSE)

SpecAttrs == InitAttrs /\ [][NextAttrs]_vars

(***************************************************************************)
(* The context stacks and the reports that read them.                      *)
(***************************************************************************)
CtxConfigs ==
    { [BaseConfig EXCEPT !.max_context_depth = p[1],
                         !.fatal_should_halt = p[2],
                         !.max_backtrace_count = 0] :
        p \in { << 3, FALSE >>, << 1, FALSE >>, << 0, FALSE >>, << 1, TRUE >> } }

InitCtx == \E config \in CtxConfigs : InitWith(config)

PathSites == { SiteX, SiteSlash, SiteBackslash, SiteMixed, SiteRoot, SiteEmpty }

NextCtx ==
    \/ \E t \in Threads, name \in Labels : forensics_context_begin(t, name)
    \/ \E t \in Threads : forensics_context_end(t, 0, FALSE, FALSE)
    \/ \E t \in Threads, site \in PathSites :
         forensics_report_assert_failure(t, site, 0, 0, FALSE, FALSE)

SpecCtx == InitCtx /\ [][NextCtx]_vars

(***************************************************************************)
(* Fingerprints: reports between changes of every store.                   *)
(***************************************************************************)
IdConfigs ==
    { [BaseConfig EXCEPT !.max_id_size_bytes = n, !.max_backtrace_count = 0] :
        n \in { 64, 12 } }

InitId == \E config \in IdConfigs : InitWith(config)

IdSites == { SiteFmt, SiteFmtFatal, SiteX }

NextId ==
    \/ \E t \in Threads, name \in { StrG, StrL } : forensics_context_begin(t, name)
    \/ \E t \in Threads : forensics_context_end(t, 0, FALSE, FALSE)
    \/ \E value \in { StrV, Absent } : forensics_set_attribute(StrA, value, FALSE)
    \/ forensics_add_breadcrumb(CrumbOne)
    \/ \E t \in Threads, site \in IdSites : \E arg \in ArgsOf(site) :
         forensics_report_assert_failure(t, site, arg, 0, FALSE, FALSE)

SpecId == InitId /\ [][NextId]_vars

(***************************************************************************)
(* Nesting, overflow, underflow and halting: the context calls and direct  *)
(* reports, fatal and not, with halting on and off.                        *)
(***************************************************************************)
StackConfigs ==
    { [BaseConfig EXCEPT !.max_context_depth = p[1],
                         !.fatal_should_halt = p[2],
                         !.max_backtrace_count = 0] :
        p \in { << 1, FALSE >>, << 2, FALSE >>, << 0, FALSE >>, << 1, TRUE >> } }

InitStack == \E config \in StackConfigs : InitWith(config)

StackSites == { SiteX, SiteSlash }

NextStack ==
    \/ \E t \in Threads, name \in { StrG, StrL } : forensics_context_begin(t, name)
    \/ \E t \in Threads : forensics_context_end(t, 0, FALSE, FALSE)
    \/ \E t \in Threads, site \in StackSites :
         forensics_report_assert_failure(t, site, 0, 0, FALSE, FALSE)

SpecStack == InitStack /\ [][NextStack]_vars

(***************************************************************************)
(* The assertion macros of forensics.h.                                    *)
(***************************************************************************)
Macros ==
    { "FORENSICS_ASSERT", "FORENSICS_ASSERTF", "FORENSICS_VERIFY", "FORENSICS_VERIFYF",
      "FORENSICS_ASSERT_DBG", "FORENSICS_ASSERT_DBGF" }

\* the macros that a build with NDEBUG defines as the constant true
DbgMacros == { "FORENSICS_ASSERT_DBG", "FORENSICS_ASSERT_DBGF" }

\* a fatal flag for every macro
MacroAlwaysFatal(macro) == TRUE

\* the fatal argument a macro passes to forensics_report_assert_failure
MacroFatal(macro) ==
    macro \in { "FORENSICS_ASSERT", "FORENSICS_ASSERTF",
                "FORENSICS_ASSERT_DBG", "FORENSICS_ASSERT_DBGF" }

\* the format a macro passes: "" for the plain forms, the caller's for the F forms
MacroFormat(macro) ==
    IF macro \in { "FORENSICS_ASSERTF", "FORENSICS_VERIFYF", "FORENSICS_ASSERT_DBGF" }
    THEN StrXPctD ELSE StrEmpty

\* the call site a macro hands over: __FILE__, __LINE__, __func__
MacroSite(macro) == Site(FilePlain, 1, StrF, MacroFatal(macro), MacroFormat(macro))

\* the engine's state: everything but the history of the last operation
engineVars == << s_config, NDEBUG, lifeVars, crumbVars, attrVars, ctxVars, reportVars, lockVars, status >>

\* ((expr) ? true : (forensics_report_assert_failure(...), false)) on thread t:
\* expr is the value of the condition, result the value of the expression,
\* "none" when the call halted the process before the comma operator got to
\* false.  With NDEBUG the _DBG forms are the constant true: the condition is
\* not evaluated.
forensics_macro(t, macro, expr, arg) ==
    /\ status = "running"
    /\ steps < MaxOps
    /\ IF expr \/ (NDEBUG /\ macro \in DbgMacros)
       THEN /\ arg = 0
            /\ last' = [op |-> "macro", thread |-> t, macro |-> macro, expr |-> expr,
                        result |-> "true", calls |-> 0, handled |-> 0]
            /\ UNCHANGED engineVars
       ELSE /\ s_report_mutex = 0
            /\ ReportBody(t, MacroSite(macro), arg, 0, FALSE, FALSE)
            /\ last' = [op |-> "macro", thread |-> t, macro |-> macro, expr |-> expr,
                        result |-> IF status' = "running" THEN "false" ELSE "none",
                        calls |-> 1, handled |-> 1]
            /\ UNCHANGED << ctxVars, lockVars >>
    /\ steps' = steps + 1

MacroConfigs ==
    { [BaseConfig EXCEPT !.fatal_should_halt = halt, !.max_backtrace_count = 0] :
        halt \in BOOLEAN }

InitMacro == \E config \in MacroConfigs, ndebug \in BOOLEAN : InitBuild(config, ndebug)

NextMacro ==
    \/ \E t \in Threads, macro \in Macros, expr \in BOOLEAN :
         forensics_macro(t, macro, expr, 0)
    \/ forensics_set_attribute(StrA, StrV, FALSE)
    \/ forensics_add_breadcrumb(CrumbOne)
    \/ forensics_context_begin(1, StrG)

SpecMacro == InitMacro /\ [][NextMacro]_vars

(***************************************************************************)
(* The three calls that take s_report_mutex, step by step: a thread enters *)
(* a call, constructs the lock_guard, runs the body, and for a report      *)
(* stays in the handler, then leaves the scope of the guard.               *)
(***************************************************************************)
LockCalls ==
    { [op |-> "set", key |-> StrA, value |-> StrV],
      [op |-> "set", key |-> StrA, value |-> Absent],
      [op |-> "set", key |-> StrB, value |-> StrW],
      [op |-> "add", crumb |-> CrumbOne],
      [op |-> "add", crumb |-> CrumbTwo],
      [op |-> "report", site |-> SiteX] }

\* a lock() that does not exclude
MutexNeverExcludes(t) == TRUE

\* std::mutex::lock() returns to thread t: no thread owns the mutex
MutexAvailable(t) == s_report_mutex = 0

\* thread t calls one of the three functions and arrives at its lock_guard
forensics_call(t, call) ==
    /\ status = "running"
    /\ steps < MaxOps
    /\ pc[t].at = "idle"
    /\ pc' = [pc EXCEPT ![t] = [at |-> "lock", call |-> call]]
    /\ UNCHANGED << s_config, NDEBUG, lifeVars, crumbVars, attrVars, ctxVars, reportVars, s_report_mutex,
                    status, steps, last >>

\* std::lock_guard<std::mutex> lock(s_report_mutex) on thread t
lock_guard(t) ==
    /\ status = "running"
    /\ pc[t].at = "lock"
    /\ MutexAvailable(t)
    /\ s_report_mutex' = t
    /\ pc' = [pc EXCEPT ![t].at = "body"]
    /\ UNCHANGED << s_config, NDEBUG, lifeVars, crumbVars, attrVars, ctxVars, reportVars, status, steps, last >>

\* the body of the call behind the guard.  A report is built and handed to
\* the handler, which then runs ("handler"); an attribute assertion locks
\* the mutex again on its owner ("relock") and stays there.
critical_section(t) ==
    /\ pc[t].at = "body"
    /\ LET call == pc[t].call IN
       CASE call.op = "set" ->
              /\ SetAttributeBody(call.key, call.value, FALSE)
              /\ pc' = [pc EXCEPT ![t] = IF status' = "stuck" THEN [at |-> "relock"]
                                         ELSE [at |-> "unlock"]]
         [] call.op = "add" ->
              /\ AddBreadcrumbBody(call.crumb)
              /\ pc' = [pc EXCEPT ![t] = [at |-> "unlock"]]
         [] call.op = "report" ->
              /\ ReportFailureBody(t, call.site, 0, 0, FALSE, FALSE)
              /\ pc' = [pc EXCEPT ![t] = [at |-> "handler"]]
    /\ UNCHANGED s_report_mutex

\* the handler returns, or the body ends: the guard goes out of scope
lock_guard_release(t) ==
    /\ status = "running"
    /\ pc[t].at \in { "handler", "unlock" }
    /\ s_report_mutex' = 0
    /\ pc' = [pc EXCEPT ![t] = [at |-> "idle"]]
    /\ UNCHANGED << s_config, NDEBUG, lifeVars, crumbVars, attrVars, ctxVars, reportVars, status, steps, last >>

LockConfigs ==
    { [BaseConfig EXCEPT !.max_attribute_count = n, !.max_backtrace_count = 0] :
        n \in { 3, 1 } }

InitLock == \E config \in LockConfigs : InitWith(config)

NextLock ==
    \/ \E t \in Threads, call \in LockCalls : forensics_call(t, call)
    \/ \E t \in Threads : lock_guard(t)
    \/ \E t \in Threads : critical_section(t)
    \/ \E t \in Threads : lock_guard_release(t)

SpecLock == InitLock /\ [][NextLock]_vars

(***************************************************************************)
(* Everything switched off: max_attribute_count, max_breadcrumb_count and  *)
(* max_context_depth are 0, the byte budgets keep their sizes.             *)
(***************************************************************************)
ZeroConfigs ==
    { [BaseConfig EXCEPT !.max_attribute_count = 0,
                         !.max_breadcrumb_count = 0,
                         !.max_context_depth = 0,
                         !.max_backtrace_count = 0,
                         !.fatal_should_halt = halt] :
        halt \in BOOLEAN }

InitZero == \E config \in ZeroConfigs : InitWith(config)

NextZero ==
    \/ \E value \in { StrV, Absent } : forensics_set_attribute(StrA, value, FALSE)
    \/ \E c \in { CrumbOne, CrumbKV } : forensics_add_breadcrumb(c)
    \/ \E t \in Threads, name \in { StrG, StrL } : forensics_context_begin(t, name)
    \/ \E t \in Threads : forensics_context_end(t, 0, FALSE, FALSE)
    \/ \E t \in Threads : forensics_report_assert_failure(t, SiteX, 0, 0, FALSE, FALSE)

SpecZero == InitZero /\ [][NextZero]_vars

(***************************************************************************)
(* A breadcrumb ring with slots and no bytes.                              *)
(***************************************************************************)
NoBytesConfigs ==
    { [BaseConfig EXCEPT !.max_breadcrumb_count = n,
                         !.breadcrumb_buf_size_bytes = 0,
                         !.max_backtrace_count = 0] :
        n \in { 1, 2 } }

InitNoBytes == \E config \in NoBytesConfigs : InitWith(config)

NextNoBytes ==
    \/ \E c \in AllCrumbs : forensics_add_breadcrumb(c)
    \/ \E t \in Threads : forensics_report_assert_failure(t, SiteX, 0, 0, FALSE, FALSE)

SpecNoBytes == InitNoBytes /\ [][NextNoBytes]_vars

(***************************************************************************)
(* An attribute store with entries and no bytes.                           *)
(***************************************************************************)
NoAttrBytesConfigs ==
    { [BaseConfig EXCEPT !.max_attribute_count = n,
                         !.attribute_buf_size_bytes = 0,
                         !.max_backtrace_count = 0] :
        n \in { 1, 2 } }

InitNoAttrBytes == \E config \in NoAttrBytesConfigs : InitWith(config)

NextNoAttrBytes ==
    \/ \E key \in AttrKeys, value \in AttrValues : forensics_set_attribute(key, value, FALSE)
    \/ \E t \in Threads : forensics_report_assert_failure(t, SiteX, 0, 0, FALSE, FALSE)

SpecNoAttrBytes == InitNoAttrBytes /\ [][NextNoAttrBytes]_vars

(***************************************************************************)
(* Reports under message and id buffers of every size, 0 included.         *)
(***************************************************************************)
SizeConfigs ==
    { [BaseConfig EXCEPT !.max_formatted_message_size_bytes = p[1],
                         !.max_id_size_bytes = p[2],
                         !.max_backtrace_count = 0] :
        p \in { << 16, 64 >>, << 2, 12 >>, << 1, 1 >>, << 0, 64 >>, << 16, 0 >> } }

InitSizes == \E config \in SizeConfigs : InitWith(config)

NextSizes ==
    \/ \E t \in Threads : forensics_context_begin(t, StrG)
    \/ \E t \in Threads, site \in { SiteFmt, SiteX }, crash \in BOOLEAN :
         \E arg \in ArgsOf(site) :
            forensics_report_assert_failure(t, site, arg, 0, crash, FALSE)

SpecSizes == InitSizes /\ [][NextSizes]_vars

(***************************************************************************)
(* The life of the buffers: labels, reports, attributes and breadcrumbs on *)
(* two threads, the exit of a thread, and forensics_shutdown.              *)
(***************************************************************************)
InitLife == InitWith([BaseConfig EXCEPT !.max_backtrace_count = 0])

NextLife ==
    \/ \E t \in Threads \ exited : forensics_context_begin(t, StrG)
    \/ \E t \in Threads \ exited : forensics_context_end(t, 0, FALSE, FALSE)
    \/ \E t \in Threads \ exited : forensics_report_assert_failure(t, SiteX, 0, 0, FALSE, FALSE)
    \/ forensics_set_attribute(StrA, StrV, FALSE)
    \/ forensics_add_breadcrumb(CrumbOne)
    \/ \E t \in Threads, crash \in BOOLEAN : thread_exit(t, crash)
    \/ \E crash \in BOOLEAN : forensics_shutdown(crash)

SpecLife == InitLife /\ [][NextLife]_vars

(***************************************************************************)
(* The signal bridge: a fault signal delivered to a thread at any point of *)
(* a locking call, and the crash entry of the engine.                      *)
(***************************************************************************)
\* the signals the handler is registered for, and one it is not
FaultSignals == { "SIGABRT", "SIGBUS", "SIGFPE", "SIGILL", "SIGSEGV" }
Signals == FaultSignals \cup { "SIGTERM" }

\* "got signal: "
StrGotSignal == << 103, 111, 116, 32, 115, 105, 103, 110, 97, 108, 58, 32 >>

\* "SIGABRT", "SIGBUS", "SIGFPE", "SIGILL", "SIGSEGV" as characters
SignalName(sig) ==
    CASE sig = "SIGABRT" -> << 83, 73, 71, 65, 66, 82, 84 >>
      [] sig = "SIGBUS" -> << 83, 73, 71, 66, 85, 83 >>
      [] sig = "SIGFPE" -> << 83, 73, 71, 70, 80, 69 >>
      [] sig = "SIGILL" -> << 83, 73, 71, 73, 76, 76 >>
      [] sig = "SIGSEGV" -> << 83, 73, 71, 83, 69, 71, 86 >>

\* "got unexpected signal"
StrUnexpectedSignal ==
    << 103, 111, 116, 32, 117, 110, 101, 120, 112, 101, 99, 116, 101, 100, 32, 115, 105, 103, 110, 97, 108 >>

\* the switch of signal_handler
SignalMessage(sig) ==
    CASE sig = "SIGABRT" -> StrGotSignal \o SignalName("SIGABRT")
      [] sig = "SIGBUS" -> StrGotSignal \o SignalName("SIGBUS")
      [] sig = "SIGFPE" -> StrGotSignal \o SignalName("SIGFPE")
      [] sig = "SIGILL" -> StrGotSignal \o SignalName("SIGILL")
      [] sig = "SIGSEGV" -> StrGotSignal \o SignalName("SIGSEGV")
      [] OTHER -> StrUnexpectedSignal

\* what the crash entry hands to the report assembly: no file, line 0, no
\* function, fatal, and the message as the format
CrashSite(message) == Site(StrEmpty, 0, StrEmpty, TRUE, message)

\* the crash entry serializes on s_report_mutex, a std::mutex: its lock()
\* returns when no thread owns the mutex
CrashEntryLockable(t) == s_report_mutex = 0

\* forensics_report_crash(message) on thread t, from the lock to the return
\* of the handler and the halt.  On a thread that owns s_report_mutex the
\* lock() never returns.
forensics_report_crash(t, message) ==
    IF CrashEntryLockable(t)
    THEN /\ ReportBody(t, CrashSite(message), 0, 0, FALSE, FALSE)
         /\ last' = [op |-> "signal", thread |-> t, message |-> message,
                     at |-> pc[t].at, calls |-> 1, handled |-> 1]
    ELSE /\ s_report_mutex = t
         /\ status' = "stuck"
         /\ last' = [op |-> "signal", thread |-> t, message |-> message,
                     at |-> pc[t].at, calls |-> 1, handled |-> 0]
         /\ UNCHANGED << s_config, NDEBUG, lifeVars, crumbVars, attrVars, reportVars >>

\* signal_handler(sig, info, context), run on thread t wherever the thread
\* is when the signal is delivered; errno is saved and restored around it
signal_handler(t, sig) ==
    /\ status = "running"
    /\ steps < MaxOps
    /\ forensics_report_crash(t, SignalMessage(sig))
    /\ steps' = steps + 1
    /\ UNCHANGED << ctxVars, lockVars >>

SignalConfigs ==
    { [BaseConfig EXCEPT !.fatal_should_halt = halt,
                         !.max_formatted_message_size_bytes = 32,
                         !.max_backtrace_count = 0] : halt \in BOOLEAN }

InitSignal == \E config \in SignalConfigs : InitWith(config)

SignalCalls ==
    { [op |-> "set", key |-> StrA, value |-> StrV],
      [op |-> "add", crumb |-> CrumbOne],
      [op |-> "report", site |-> SiteX] }

NextSignal ==
    \/ \E t \in Threads, call \in SignalCalls : forensics_call(t, call)
    \/ \E t \in Threads : lock_guard(t)
    \/ \E t \in Threads : critical_section(t)
    \/ \E t \in Threads : lock_guard_release(t)
    \/ \E t \in Threads, sig \in Signals : signal_handler(t, sig)

SpecSignal == InitSignal /\ [][NextSignal]_vars

(***************************************************************************)
(* The byte ring with more slots than entries fit: adds of breadcrumbs of  *)
(* 4, 5 and 6 bytes into rings of 8 and 16 bytes with 3 and 4 slots.       *)
(***************************************************************************)
RingConfigs ==
    { [BaseConfig EXCEPT !.max_breadcrumb_count = p[1],
                         !.breadcrumb_buf_size_bytes = p[2],
                         !.max_backtrace_count = 0] :
        p \in { << 3, 8 >>, << 4, 8 >>, << 3, 16 >>, << 2, 8 >> } }

InitRing == \E config \in RingConfigs : InitWith(config)

NextRing ==
    \/ \E c \in PlainCrumbs : forensics_add_breadcrumb(c)
    \/ forensics_report_assert_failure(1, SiteX, 0, 0, FALSE, FALSE)

SpecRing == InitRing /\ [][NextRing]_vars

(***************************************************************************)
(* The attribute store at its limits, with halting on and off: sets up to  *)
(* and beyond the entry count and the byte budget, and fatal reports.      *)
(***************************************************************************)
CapConfigs ==
    { [BaseConfig EXCEPT !.max_attribute_count = p[1],
                         !.attribute_buf_size_bytes = p[2],
                         !.fatal_should_halt = halt,
                         !.max_backtrace_count = 0] :
        p \in { << 3, 16 >>, << 3, 8 >>, << 1, 4 >> }, halt \in BOOLEAN }

InitCap == \E config \in CapConfigs : InitWith(config)

NextCap ==
    \/ \E key \in AttrKeys, value \in AttrValues, backward \in BOOLEAN :
         forensics_set_attribute(key, value, backward)
    \/ forensics_report_assert_failure(1, SiteFmtFatal, 0, 0, FALSE, FALSE)

SpecCap == InitCap /\ [][NextCap]_vars

(***************************************************************************)
(* Two threads with labels of their own: thread 1 begins "g", thread 2     *)
(* begins "l", in every interleaving with ends and reports, for stacks of  *)
(* 2 and 1 entries.                                                        *)
(***************************************************************************)
LabelOf(t) == IF t = 1 THEN StrG ELSE StrL

PrivateConfigs ==
    { [BaseConfig EXCEPT !.max_context_depth = n, !.max_backtrace_count = 0] :
        n \in { 2, 1 } }

InitPrivate == \E config \in PrivateConfigs : InitWith(config)

NextPrivate ==
    \/ \E t \in Threads : forensics_context_begin(t, LabelOf(t))
    \/ \E t \in Threads : forensics_context_end(t, 0, FALSE, FALSE)
    \/ \E t \in Threads : forensics_report_assert_failure(t, SiteX, 0, 0, FALSE, FALSE)

SpecPrivate == InitPrivate /\ [][NextPrivate]_vars

(***************************************************************************)
(* The whole engine under the base configuration.                          *)
(***************************************************************************)
Init == InitWith(BaseConfig)

Next ==
    \/ \E c \in { CrumbOne, CrumbTwo, CrumbKV } : forensics_add_breadcrumb(c)
    \/ \E key \in { StrA, StrB }, value \in { StrV, Absent }, backward \in BOOLEAN :
         forensics_set_attribute(key, value, backward)
    \/ \E t \in Threads, name \in { StrG, StrL } : forensics_context_begin(t, name)
    \/ \E t \in Threads, frames \in 0..1, clobber \in BOOLEAN :
         forensics_context_end(t, frames, FALSE, clobber)
    \/ \E t \in Threads, site \in { SiteFmt, SiteSlash }, frames \in 0..1, clobber \in BOOLEAN :
         forensics_report_assert_failure(t, site, 0, frames, FALSE, clobber)

Spec == Init /\ [][Next]_vars


(***************************************************************************)
(* Properties.                                                             *)
(***************************************************************************)
\* the last operation was a report that reached the handler
Reported == last.op = "report" /\ report.delivered

\* the last operation was an add that the configuration can hold: the ring
\* has slots and the breadcrumb is no larger than the byte budget
FittingAdd ==
    /\ last.op = "add"
    /\ s_config.max_breadcrumb_count > 0
    /\ required_size(last.crumb) <= s_config.breadcrumb_buf_size_bytes

\* C1: the breadcrumbs handed to the report handler, read from index 0 up,
\* are the most recent run of the coalesced add history, oldest first, each
\* with exactly the name, metadata pairs and repeat count of its adds.
C1_ReportIsRecentRunOfHistory ==
    Reported => report.breadcrumbs = Suffix(hist, report.breadcrumb_count)

\* C2: an add coalesces if and only if it matches the most recently recorded
\* breadcrumb; then the breadcrumb count, the slot index and both cursors
\* are unchanged and only the repeat count of the newest entry grows by one;
\* in every other case a new entry with repeat count 1 is appended.
C2_CoalesceIffMatchesLast ==
    FittingAdd =>
        IF hist[Len(hist)].count > 1
        THEN /\ last.kind = "coalesced"
             /\ s_breadcrumbs_count = last.before.count
             /\ s_breadcrumbs_index_next = last.before.index_next
             /\ s_breadcrumbs_buf_read_index = last.before.read
             /\ s_breadcrumbs_buf_write_index = last.before.write
             /\ ReportBreadcrumbs[s_breadcrumbs_count].count
                  = last.view[s_breadcrumbs_count].count + 1
        ELSE /\ last.kind = "stored"
             /\ s_breadcrumbs_count > 0
             /\ ReportBreadcrumbs[s_breadcrumbs_count] = Content(last.crumb, 1)

\* C3: with a byte budget that holds every breadcrumb added so far at once
\* (so that no byte eviction is needed) and no two consecutive adds equal,
\* a report contains exactly the last min(n, max_breadcrumb_count) of the n
\* breadcrumbs added, in the order they were added.
C3_CountBoundedEviction ==
    ( /\ Reported
      /\ \A c \in AllCrumbs : required_size(c) <= s_config.breadcrumb_buf_size_bytes
      /\ \A i \in 1..Len(hist) : hist[i].count = 1
      /\ SumSeq([i \in 1..Len(hist) |-> required_size(hist[i])])
           <= s_config.breadcrumb_buf_size_bytes )
    => report.breadcrumbs = Suffix(hist, Min(Len(hist), s_config.max_breadcrumb_count))

\* C4: a breadcrumb whose required size is at most breadcrumb_buf_size_bytes
\* is never dropped: the add returns and the breadcrumb is then the newest
\* stored one, also when all older ones had to go and when its size is the
\* whole budget.
C4_FittingAddIsStored ==
    FittingAdd =>
        /\ status = "running"
        /\ s_breadcrumbs_count > 0
        /\ LET newest == ReportBreadcrumbs[s_breadcrumbs_count] IN
             /\ newest.name = last.crumb.name
             /\ newest.meta_keys = last.crumb.meta_keys
             /\ newest.meta_values = last.crumb.meta_values

\* bytes of the entries of attrs whose key is not `key`
LiveBytes(attrs, key) ==
    SumSeq([i \in 1..Len(attrs) |->
              IF attrs[i][1] = key THEN 0
              ELSE SizeBytes(attrs[i][1]) + SizeBytes(attrs[i][2])])

\* the entries of attrs with key `key`
EntriesOf(attrs, key) == { i \in 1..Len(attrs) : attrs[i][1] = key }

\* C5: after set_attribute(k, v) with v present and the capacity not
\* exceeded (the other entries and the new one fit the entry count and the
\* byte budget), the store holds exactly one entry with key k, and its value
\* is v; and at no time do two stored entries have equal keys.
C5_SetStoresExactlyOne ==
    /\ ( /\ last.op = "set"
         /\ last.value # Absent
         /\ Len(last.before) - Cardinality(EntriesOf(last.before, last.key))
              < s_config.max_attribute_count
         /\ LiveBytes(last.before, last.key) + SizeBytes(last.key) + SizeBytes(last.value)
              <= s_config.attribute_buf_size_bytes )
       => /\ status = "running"
          /\ Cardinality(EntriesOf(ReportAttributes, last.key)) = 1
          /\ \A i \in EntriesOf(ReportAttributes, last.key) :
               ReportAttributes[i][2] = last.value
    /\ \A i, j \in 1..Len(ReportAttributes) :
         i # j => ReportAttributes[i][1] # ReportAttributes[j][1]

RECURSIVE Without(_, _)
\* attrs without the entries of key `key`
Without(attrs, key) ==
    IF attrs = << >> THEN << >>
    ELSE IF Head(attrs)[1] = key THEN Without(Tail(attrs), key)
    ELSE << Head(attrs) >> \o Without(Tail(attrs), key)

\* C6: after set_attribute(k, absent) key k is not found, the count has
\* dropped by one if k was stored and is unchanged otherwise, and every
\* other entry reads back with the key and value it had before.
C6_ClearKeepsOthers ==
    (last.op = "set" /\ last.value = Absent) =>
        /\ EntriesOf(ReportAttributes, last.key) = {}
        /\ s_attribute_count
             = Len(last.before) - (IF EntriesOf(last.before, last.key) # {} THEN 1 ELSE 0)
        /\ ReportAttributes = Without(last.before, last.key)

\* the labels of a thread that a stack of max_context_depth entries holds:
\* the open ones, oldest first, up to the capacity
StoredLabels(t) == SubSeq(open[t], 1, Min(Len(open[t]), s_config.max_context_depth))

\* C7: the context sequence of a report is the labels open on the calling
\* thread in push order (as far as the capacity holds them), and
\* context_count is their number.
C7_ReportShowsOpenLabels ==
    Reported =>
        /\ report.context_stack = StoredLabels(report.thread)
        /\ report.context_count = Len(StoredLabels(report.thread))

\* the part of a path after its last separator, '/' or '\' whichever is last
PathTail(file) ==
    SubSeq(file, Max(StrRChr(file, ChSlash), StrRChr(file, ChBackslash)) + 1, Len(file))

\* C8: the id of a report is context '-' basename '-' function '-' format,
\* the context being the most recently pushed label still open on the
\* calling thread or <none>; stated for stacks within their capacity and ids
\* that fit max_id_size_bytes.
C8_IdIsConcatenation ==
    (Reported /\ Len(open[report.thread]) <= s_config.max_context_depth) =>
        LET labels == open[report.thread]
            text == IdText(IF labels = << >> THEN StrNone ELSE labels[Len(labels)],
                           PathTail(report.file), report.func, report.format)
        IN  Len(text) < s_config.max_id_size_bytes => report.id = text

\* the responsible context of a report: its last context label, or <none>
Responsible(r) ==
    IF r.context_count > 0 THEN r.context_stack[r.context_count] ELSE StrNone

\* two reports were delivered that agree on context, file and function
SameSite ==
    /\ pinned.delivered
    /\ report.delivered
    /\ Responsible(pinned) = Responsible(report)
    /\ pinned.file = report.file
    /\ pinned.func = report.func

\* C9: two reports that agree on responsible context, source file, function
\* and format string carry the same id, whatever their arguments, lines,
\* fatal flags, attributes and breadcrumbs.
C9_SameFieldsSameId ==
    (SameSite /\ pinned.format = report.format) => pinned.id = report.id

\* C9 happens: two such reports under an open context, with different
\* lines, fatal flags and formatted messages and a store that changed in
\* between.
C9_Reached ==
    /\ SameSite
    /\ pinned.format = report.format
    /\ Responsible(report) # StrNone
    /\ pinned.line # report.line
    /\ pinned.fatal # report.fatal
    /\ pinned.formatted # report.formatted
    /\ (pinned.attributes # report.attributes \/ pinned.breadcrumbs # report.breadcrumbs)

\* C10 as stated: two reports with the same responsible context, file and
\* function and different format strings carry different ids, for every
\* max_id_size_bytes.
C10_DifferentFormatsDifferentIds ==
    (SameSite /\ pinned.format # report.format) => pinned.id # report.id

\* the id of a report before it is cut to max_id_size_bytes
FullId(r) == IdText(Responsible(r), file_basename(r.file), r.func, r.format)

\* C10 amended: such reports carry different ids when both uncut ids are
\* shorter than max_id_size_bytes.
C10_DifferentFormatsDifferentIdsWhenFit ==
    ( /\ SameSite
      /\ pinned.format # report.format
      /\ Len(FullId(pinned)) < s_config.max_id_size_bytes
      /\ Len(FullId(report)) < s_config.max_id_size_bytes )
    => pinned.id # report.id

\* C10 amended happens: two such reports, one of them exactly as long as the
\* id buffer allows.
C10_Reached ==
    /\ SameSite
    /\ pinned.format # report.format
    /\ Len(FullId(pinned)) + 1 = s_config.max_id_size_bytes
    /\ Len(FullId(report)) < s_config.max_id_size_bytes


\* C11: the file component of the id is the part of the reported file path
\* after its last separator, '/' or '\' whichever comes last, and the whole
\* path when it has no separator; stated for ids that fit max_id_size_bytes.
C11_FileComponentIsPathTail ==
    Reported =>
        LET text == IdText(Responsible(report), PathTail(report.file),
                           report.func, report.format)
        IN  Len(text) < s_config.max_id_size_bytes => report.id = text

\* C12: every call of forensics_report_assert_failure, direct or from an
\* assertion inside the library, hands exactly one report to the handler and
\* then returns or halts the process: an operation that made such calls saw
\* as many handler invocations, and did not stay inside the call.
C12_EveryCallHandledOnce ==
    last.calls > 0 =>
        /\ last.handled = last.calls
        /\ report.delivered
        /\ status \in { "running", "halted" }

\* the fatal flag of the report the last operation generated
LastFatal ==
    IF last.op = "report" THEN last.site.fatal ELSE UnderflowSite.fatal

\* C13: a report halts the process exactly when it is fatal and
\* fatal_should_halt is set, and otherwise leaves it running with control
\* back at the caller; the process is never halted unless the handler has
\* been given the report of the halting call.
C13_HaltIffFatalAndConfigured ==
    /\ last.handled = 1 =>
         /\ status = "halted" <=> (LastFatal /\ s_config.fatal_should_halt)
         /\ status # "halted" => status = "running"
    /\ status = "halted" =>
         /\ last.handled = 1
         /\ report.delivered
         /\ report.fatal = LastFatal
         /\ report.thread = last.thread

\* C13 happens: with halting on, a non-fatal report returned and a fatal one
\* after it halted the process
C13_Reached ==
    /\ s_config.fatal_should_halt
    /\ pinned.delivered /\ ~pinned.fatal
    /\ last.op = "report" /\ last.site.fatal
    /\ report.fatal
    /\ status = "halted"

\* the report of the last operation is the one report of a macro whose
\* condition failed, with the macro's fatal flag, on the calling thread
MacroReported ==
    /\ last.calls = 1 /\ last.handled = 1
    /\ report.delivered
    /\ report.thread = last.thread
    /\ report.fatal = (last.macro \notin { "FORENSICS_VERIFY", "FORENSICS_VERIFYF" })

InCritical(t) == pc[t].at \in { "body", "handler", "unlock", "relock" }

\* C15: of the threads calling forensics_set_attribute,
\* forensics_add_breadcrumb and forensics_report_assert_failure at most one
\* is inside its critical section, and it owns the mutex; while a handler
\* runs, the attributes and breadcrumbs of its report are the contents of
\* the stores, so no other thread's mutation takes effect between the
\* snapshot and the return of the handler.
C15_OneCriticalSectionAtATime ==
    /\ \A t1, t2 \in Threads : (InCritical(t1) /\ InCritical(t2)) => t1 = t2
    /\ \A t \in Threads : InCritical(t) => s_report_mutex = t
    /\ \A t \in Threads : pc[t].at = "handler" =>
          /\ report.delivered
          /\ report.thread = t
          /\ report.attributes = ReportAttributes
          /\ report.breadcrumbs = ReportBreadcrumbs

\* C15 happens: a handler runs on one thread over a non-empty store while
\* the other thread waits at the lock with a mutation
C15_Reached ==
    \E t1, t2 \in Threads :
        /\ pc[t1].at = "handler"
        /\ report.attribute_count > 0
        /\ report.breadcrumb_count > 0
        /\ pc[t2].at = "lock"
        /\ pc[t2].call.op \in { "set", "add" }

\* the last operation was a forensics_set_attribute of a value that the
\* store, with attributes enabled, does not hold afterwards: the call ran
\* into max_attribute_count or attribute_buf_size_bytes
SetExceeded ==
    /\ last.op = "set"
    /\ last.value # Absent
    /\ s_config.max_attribute_count > 0
    /\ \A i \in 1..Len(ReportAttributes) : ReportAttributes[i] # << last.key, last.value >>

\* C16: a forensics_set_attribute that exceeds max_attribute_count or
\* attribute_buf_size_bytes hands exactly one fatal report to the handler,
\* and the call then returns or the process halts.
C16_ExceedingSetIsReported ==
    SetExceeded =>
        /\ last.handled = 1
        /\ report.delivered
        /\ report.fatal
        /\ status \in { "running", "halted" }

\* the last operation was a forensics_context_end on a thread whose stack
\* was empty and whose overflow counter was zero
EndOnEmpty ==
    /\ last.op = "end"
    /\ last.before.count <= 0
    /\ last.before.overflow_count = 0

\* C17: forensics_context_end on a thread with an empty stack and a zero
\* overflow counter, a thread that never began a context included, hands
\* one fatal report of the underflow assertion to the handler, on that thread.
C17_EndOnEmptyIsReported ==
    EndOnEmpty =>
        /\ last.handled = 1
        /\ report.delivered
        /\ report.fatal
        /\ report.thread = last.thread
        /\ report.func = UnderflowSite.func
        /\ report.format = UnderflowSite.format

\* C17 happens: with halting off, a thread that never began a context ends
\* one, after another thread's end on a stack it had emptied was reported
C17_Reached ==
    /\ EndOnEmpty
    /\ ~last.before.initialized
    /\ status = "running"
    /\ pinned.delivered
    /\ pinned.thread # last.thread
    /\ s_tls_context_buf[pinned.thread].initialized
    /\ pinned.func = UnderflowSite.func

\* the threads whose begin/end sequence so far is properly nested
Nested == Threads \ unbalanced

\* C18: on a thread whose begin/end calls are properly nested, with d labels
\* open and capacity max_context_depth, the stack holds the first
\* min(d, capacity) open labels and the overflow counter the rest of d; a
\* begin at capacity stores nothing and only increments the overflow
\* counter, an end with a positive overflow counter only decrements it, and
\* none of these calls generates a report.
C18_OverflowIsAbsorbed ==
    /\ \A t \in Nested :
          LET ctx_buf == s_tls_context_buf[t]
              stored == Min(Len(open[t]), s_config.max_context_depth)
          IN  /\ ctx_buf.count = stored
              /\ ctx_buf.overflow_count = Len(open[t]) - stored
              /\ \A i \in 1..stored : ctx_buf.stack[i - 1] = open[t][i]
    /\ (last.op \in { "begin", "end" } /\ last.thread \in Nested) =>
          LET ctx_buf == s_tls_context_buf[last.thread] IN
          /\ last.calls = 0 /\ last.handled = 0
          /\ (last.op = "begin" /\ last.before.count >= s_config.max_context_depth) =>
                /\ ctx_buf.count = last.before.count
                /\ ctx_buf.overflow_count = last.before.overflow_count + 1
                /\ \A i \in DOMAIN ctx_buf.stack :
                      ctx_buf.stack[i] = IF last.before.initialized
                                         THEN last.before.stack[i] ELSE BadStr
          /\ (last.op = "end" /\ last.before.overflow_count > 0) =>
                /\ ctx_buf.count = last.before.count
                /\ ctx_buf.overflow_count = last.before.overflow_count - 1
                /\ ctx_buf.stack = last.before.stack

\* C18 happens: a properly nested thread went over a capacity of at least
\* one, and an end brought its open depth back to the capacity with the
\* stored labels in place
C18_Reached ==
    /\ last.op = "end"
    /\ last.thread \in Nested
    /\ last.before.overflow_count = 1
    /\ s_config.max_context_depth > 0
    /\ Len(open[last.thread]) = s_config.max_context_depth
    /\ s_tls_context_buf[last.thread].count = s_config.max_context_depth

\* no byte of the attribute buffer or the breadcrumb ring was ever written,
\* and both stores are empty
NothingStored ==
    /\ \A i \in DOMAIN s_attribute_buf : s_attribute_buf[i] = Uninit
    /\ \A i \in DOMAIN s_breadcrumbs_buf : s_breadcrumbs_buf[i] = Uninit
    /\ s_attribute_count = 0 /\ s_attribute_buf_used = 0
    /\ s_breadcrumbs_count = 0 /\ s_breadcrumbs_buf_write_index = 0

\* the last operation was a set, an add, or a begin or end on one of the
\* given threads
ZeroCall(threads) ==
    \/ last.op \in { "set", "add" }
    \/ last.op \in { "begin", "end" } /\ last.thread \in threads

\* what C19 says, for the context calls and the reports of the given
\* threads; a begin that stores no label records the write index -2
ZeroCapacityQuiet(threads) ==
    /\ NothingStored
    /\ ZeroCall(threads) =>
          /\ last.calls = 0 /\ last.handled = 0
          /\ status = "running"
          /\ last.op = "begin" => last.wrote = 0 - 2
    /\ (Reported /\ report.thread \in threads) =>
          /\ report.attribute_count = 0
          /\ report.breadcrumb_count = 0
          /\ report.context_count = 0

C20_NoBytesNothingStored ==
    (s_config.breadcrumb_buf_size_bytes = 0 /\ s_config.max_breadcrumb_count > 0) =>
        /\ s_breadcrumbs_count = 0
        /\ s_breadcrumbs_index_next = 0
        /\ s_breadcrumbs_buf_read_index = 0
        /\ s_breadcrumbs_buf_write_index = 0
        /\ \A i \in DOMAIN s_breadcrumbs : s_breadcrumbs[i] = EmptySlot
        /\ \A i \in DOMAIN s_breadcrumbs_buf : s_breadcrumbs_buf[i] = Uninit
        /\ last.op = "add" =>
              /\ last.kind = "dropped"
              /\ Ring = last.before
              /\ last.calls = 0 /\ last.handled = 0
              /\ status = "running"
        /\ Reported => report.breadcrumb_count = 0

\* C20 happens: with no bytes and two slots, a breadcrumb with metadata is
\* added after three other calls, one of them a report that showed none
C20_Reached ==
    /\ s_config.breadcrumb_buf_size_bytes = 0
    /\ s_config.max_breadcrumb_count = 2
    /\ last.op = "add"
    /\ last.crumb = CrumbKV
    /\ pinned.delivered
    /\ steps = 4

\* C21: with attribute_buf_size_bytes = 0 and max_attribute_count > 0 every
\* forensics_set_attribute returns without a report and without storing
\* anything, and a report shows no attribute.
C21_NoAttrBytesNothingStored ==
    (s_config.attribute_buf_size_bytes = 0 /\ s_config.max_attribute_count > 0) =>
        /\ s_attribute_count = 0
        /\ s_attribute_buf_used = 0
        /\ last.op = "set" =>
              /\ status = "running"
              /\ last.calls = 0 /\ last.handled = 0
        /\ Reported => report.attribute_count = 0

\* C22: building a report writes the formatted message and the id only
\* inside their buffers, whatever max_formatted_message_size_bytes and
\* max_id_size_bytes are, 0 included: the terminator goes to an index below
\* the size, no write faults, and the texts handed to the handler have at
\* most size - 1 characters.
C22_ReportWritesInsideBuffers ==
    last.op = "report" =>
        /\ IndexBelow(TerminatorIndex(s_config.max_formatted_message_size_bytes),
                      s_config.max_formatted_message_size_bytes)
        /\ IndexBelow(TerminatorIndex(s_config.max_id_size_bytes),
                      s_config.max_id_size_bytes)
        /\ status # "fault"
        /\ report.delivered
        /\ Len(report.formatted) <= s_config.max_formatted_message_size_bytes - 1
        /\ Len(report.id) <= s_config.max_id_size_bytes - 1

(***************************************************************************)
(* C23: between forensics_init and forensics_shutdown the alloc callback   *)
(* is called only by forensics_context_begin, on the first begin of a      *)
(* thread and so at most once per thread; forensics_set_attribute,         *)
(* forensics_add_breadcrumb, forensics_context_end and a report call       *)
(* neither the alloc nor the free callback.                                *)
(***************************************************************************)
Allocs(h) == [b \in Blocks |-> h[b].allocs]

C23_AllocatorOnlyOnFirstBegin ==
    /\ [](\A t \in Threads : heap[StackBlock(t)].allocs <= 1)
    /\ [][/\ last'.op \in { "set", "add", "end", "report" } => heap' = heap
          /\ Allocs(heap') # Allocs(heap) =>
                /\ last'.op = "begin"
                /\ ~last'.before.initialized
                /\ heap' = forensics_alloc(StackBlock(last'.thread), heap)]_vars

\* a later begin of a thread found its stack in place and called no allocator
C23_Reached ==
    /\ last.op = "begin"
    /\ last.before.initialized
    /\ heap[StackBlock(last.thread)] = [allocs |-> 1, frees |-> 0]
    /\ s_attribute_count > 0
    /\ s_breadcrumbs_count > 0

(***************************************************************************)
(* C24: once forensics_shutdown has been called, every block obtained from *)
(* the alloc callback has been passed to the free callback exactly once,   *)
(* also when threads that created a context stack have exited; and no      *)
(* block is obtained a second time.                                        *)
(***************************************************************************)
FreedOnce(b) == heap[b].allocs <= 1 /\ heap[b].frees = heap[b].allocs

C24_EveryBlockFreedOnceAtShutdown ==
    /\ \A b \in Blocks : heap[b].allocs <= 1 /\ heap[b].frees <= heap[b].allocs
    /\ last.op = "shutdown" => \A b \in Blocks : FreedOnce(b)

(***************************************************************************)
(* C25: forensics_shutdown terminates from every registry state that first *)
(* begins on different threads and exits of those threads lead to, and     *)
(* leaves the registry list empty.                                         *)
(***************************************************************************)
C25_ShutdownEmptiesRegistry ==
    last.op = "shutdown" =>
        /\ last.returned
        /\ status = "shutdown"
        /\ s_context_buf_list = 0

(***************************************************************************)
(* C26: the exit of a thread that created a context stack neither calls    *)
(* the free callback on the stack nor changes the registry: the stack      *)
(* stays allocated and listed until forensics_shutdown.                    *)
(***************************************************************************)
C26_ExitKeepsStack ==
    /\ [](\A t \in Threads : status = "running" => heap[StackBlock(t)].frees = 0)
    /\ [][last'.op = "exit" =>
            /\ heap' = heap
            /\ s_context_buf_list' = s_context_buf_list
            /\ s_tls_context_buf' = s_tls_context_buf]_vars

(***************************************************************************)
(* C27: each delivered fault signal produces exactly one report, with an   *)
(* empty file, line 0 and the formatted message "got signal: SIGABRT",     *)
(* "got signal: SIGBUS", "got signal: SIGFPE", "got signal: SIGILL" or     *)
(* "got signal: SIGSEGV" according to the signal; any other signal gives   *)
(* "got unexpected signal".                                                *)
(***************************************************************************)
SignalMessages ==
    { StrGotSignal \o SignalName(sig) : sig \in FaultSignals } \cup { StrUnexpectedSignal }

C27_SignalYieldsOneSyntheticReport ==
    last.op = "signal" =>
        /\ last.handled = 1
        /\ last.message \in SignalMessages
        /\ report.file = StrEmpty
        /\ report.line = 0
        /\ report.formatted = last.message

(***************************************************************************)
(* C28: a fault signal delivered to a thread at any point, also inside     *)
(* forensics_set_attribute, forensics_add_breadcrumb or a report in        *)
(* progress and its handler, leads to the crash report reaching the        *)
(* handler: the signal path never waits for a lock its own thread holds.   *)
(***************************************************************************)
C28_SignalPathNeverSelfBlocks ==
    last.op = "signal" =>
        /\ status # "stuck"
        /\ last.handled = 1
        /\ report.formatted = last.message

(***************************************************************************)
(* C29: in every report handed to the handler, for the context stack, the  *)
(* attributes, the breadcrumbs and the backtrace the count is not negative *)
(* and the array pointer is null exactly when the count is 0.              *)
(***************************************************************************)
NullIffZero(pointer, count) == count >= 0 /\ (pointer = "nullptr" <=> count = 0)

C29_CountsAndPointersAgree ==
    report.delivered =>
        /\ NullIffZero(report.pointers.context_stack, report.context_count)
        /\ NullIffZero(report.pointers.attribute_keys, report.attribute_count)
        /\ NullIffZero(report.pointers.attribute_values, report.attribute_count)
        /\ NullIffZero(report.pointers.breadcrumbs, report.breadcrumb_count)
        /\ NullIffZero(report.pointers.backtrace, report.backtrace_count)

(***************************************************************************)
(* C30: in every reachable state the byte regions [offset, offset +        *)
(* buf_size) of the live breadcrumbs are pairwise disjoint and lie inside  *)
(* [0, breadcrumb_buf_size_bytes).                                         *)
(***************************************************************************)
\* the slots of the breadcrumbs that have not been evicted
LiveSlots ==
    { (s_breadcrumbs_index_next + s_config.max_breadcrumb_count - k)
        % s_config.max_breadcrumb_count : k \in 1..s_breadcrumbs_count }

\* where the allocation of a stored breadcrumb starts: at its key table, or
\* at its name when it has no metadata
SlotOffset(slot) == IF slot.meta_count > 0 THEN slot.meta_keys ELSE slot.name

RegionsDisjoint(a, b) ==
    \/ SlotOffset(a) + a.buf_size <= SlotOffset(b)
    \/ SlotOffset(b) + b.buf_size <= SlotOffset(a)

C30_LiveRegionsDisjointInsideRing ==
    status = "running" =>
        /\ \A i \in LiveSlots :
              /\ SlotOffset(s_breadcrumbs[i]) >= 0
              /\ SlotOffset(s_breadcrumbs[i]) + s_breadcrumbs[i].buf_size
                    <= s_config.breadcrumb_buf_size_bytes
        /\ \A i, j \in LiveSlots :
              i # j => RegionsDisjoint(s_breadcrumbs[i], s_breadcrumbs[j])

(***************************************************************************)
(* C31: every call of forensics_add_breadcrumb returns: the eviction loop  *)
(* ends while breadcrumbs are left to evict, and the stored breadcrumb     *)
(* count stays within [0, max_breadcrumb_count].                           *)
(***************************************************************************)
C31_AddTerminatesCountInRange ==
    /\ last.op = "add" => last.kind # "stuck"
    /\ s_breadcrumbs_count >= 0
    /\ s_breadcrumbs_count <= s_config.max_breadcrumb_count

(***************************************************************************)
(* C32: an add whose required size exceeds breadcrumb_buf_size_bytes has   *)
(* no effect: no report is made, and the stored breadcrumbs, the slot      *)
(* index and both cursors of the byte ring are as before the call, also    *)
(* when the ring holds max_breadcrumb_count entries.                       *)
(***************************************************************************)
OversizeAdd ==
    /\ last.op = "add"
    /\ required_size(last.crumb) > s_config.breadcrumb_buf_size_bytes

C32_OversizeAddHasNoEffect ==
    OversizeAdd =>
        /\ last.calls = 0
        /\ status = "running"
        /\ ReportBreadcrumbs = last.view
        /\ s_breadcrumbs_count = last.before.count
        /\ s_breadcrumbs_index_next = last.before.index_next
        /\ s_breadcrumbs_buf_read_index = last.before.read
        /\ s_breadcrumbs_buf_write_index = last.before.write

(***************************************************************************)
(* C33: removal reclaims attribute bytes: the bytes counted as used equal  *)
(* the sum over the stored entries of key length + 1 + value length + 1,   *)
(* and a set fails for lack of bytes only when the stored entries and the  *)
(* new one do not fit attribute_buf_size_bytes.                            *)
(***************************************************************************)
\* the bytes the stored entries take
LiveAttributeBytes ==
    SumSeq([i \in 1..Max(s_attribute_count, 0) |->
              SizeBytes(ReportAttributes[i][1]) + SizeBytes(ReportAttributes[i][2])])

C33_UsedBytesAreLiveBytes ==
    /\ s_attribute_buf_used = LiveAttributeBytes
    /\ (last.op = "set" /\ last.kind = "stuck") =>
          \/ s_attribute_count >= s_config.max_attribute_count
          \/ LiveAttributeBytes + SizeBytes(last.key) + SizeBytes(last.value)
                > s_config.attribute_buf_size_bytes

(***************************************************************************)
(* C34: the attribute store never exceeds its capacity: in every reachable *)
(* state, halting on or off, the entry count is at most                    *)
(* max_attribute_count, the bytes used are at most                         *)
(* attribute_buf_size_bytes, and every stored key and value lies entirely  *)
(* inside the attribute buffer.                                            *)
(***************************************************************************)
\* the C string at p starts and is terminated inside the attribute buffer
StringInside(p) ==
    /\ p >= 0
    /\ \E end \in p..(s_config.attribute_buf_size_bytes - 1) : s_attribute_buf[end] = 0

C34_AttributeStoreWithinCapacity ==
    /\ s_attribute_count >= 0
    /\ s_attribute_count <= s_config.max_attribute_count
    /\ s_attribute_buf_used >= 0
    /\ s_attribute_buf_used <= s_config.attribute_buf_size_bytes
    /\ \A index \in 0..(s_attribute_count - 1) :
          /\ StringInside(s_attribute_keys[index])
          /\ StringInside(s_attribute_values[index])
          /\ s_attribute_values[index] < s_attribute_buf_used

\* a set that exceeded the capacity was attempted on a full store, which
\* still holds its entries
C34_Reached ==
    /\ last.op = "set"
    /\ last.kind = "stuck"
    /\ s_attribute_count > 0
    /\ s_attribute_buf_used = s_config.attribute_buf_size_bytes

(***************************************************************************)
(* C35: for every thread and every sequence of begin and end calls,        *)
(* balanced or not, 0 <= count <= capacity and overflow_count >= 0 in      *)
(* every reachable state, also after a reported stack underflow with       *)
(* halting off, and forensics_context_begin writes only to stack indices   *)
(* in [0, capacity).                                                       *)
(***************************************************************************)
C35_ContextCountsInRange ==
    /\ \A t \in Threads :
          /\ s_tls_context_buf[t].count >= 0
          /\ s_tls_context_buf[t].count <= s_tls_context_buf[t].capacity
          /\ s_tls_context_buf[t].overflow_count >= 0
    /\ (last.op = "begin" /\ last.wrote # 0 - 2) =>
          /\ last.wrote >= 0
          /\ last.wrote < s_tls_context_buf[last.thread].capacity

(***************************************************************************)
(* C36: the registry list reachable from its head holds exactly the        *)
(* context stacks that are initialized, each once, with prev and next      *)
(* links that agree: context_buffer_init inserts the new stack, and        *)
(* context_buffer_destroy of any registered stack makes it unreachable     *)
(* while the others stay reachable.                                        *)
(***************************************************************************)
\* the buffers met on the way from `from` along next, at most `fuel` of them
RECURSIVE RegistryWalk(_, _)
RegistryWalk(from, fuel) ==
    IF from = 0 \/ fuel = 0 THEN << >>
    ELSE << from >> \o RegistryWalk(s_tls_context_buf[from].next, fuel - 1)

Registered == RegistryWalk(s_context_buf_list, Cardinality(Threads) + 1)

C36_RegistryHoldsInitializedStacks ==
    status = "running" =>
        /\ Len(Registered) <= Cardinality(Threads)
        /\ \A i, j \in 1..Len(Registered) : i # j => Registered[i] # Registered[j]
        /\ { Registered[i] : i \in 1..Len(Registered) }
              = { t \in Threads : s_tls_context_buf[t].initialized }
        /\ \A i \in 1..Len(Registered) :
              s_tls_context_buf[Registered[i]].prev
                 = IF i = 1 THEN 0 ELSE Registered[i - 1]

(***************************************************************************)
(* C37: context stacks are private to their thread: a begin or end on one  *)
(* thread never changes the count, the overflow counter or the stored      *)
(* labels of another thread's stack, and a report built on a thread holds  *)
(* that thread's labels only, in every interleaving of the threads.        *)
(***************************************************************************)
\* count, overflow counter and labels of the stack of thread t
StackOf(bufs, t) == << bufs[t].count, bufs[t].overflow_count, bufs[t].stack >>

AllocOf(slot) == IF slot.meta_count > 0 THEN slot.meta_keys ELSE slot.name

\* byte offsets that the copy of forensics_add_breadcrumb writes for c at
\* alloc: both pointer tables, the name and the strings behind it
WrittenOffsets(c, alloc) ==
    LET meta_count == Len(c.meta_keys)
        out_meta_values == out_meta_values_of(alloc, meta_count)
        out_name == out_name_of(alloc, meta_count)
    IN  UNION { (alloc + PtrSize * index)..(alloc + PtrSize * index + PtrSize - 1) :
                  index \in 0..(meta_count - 1) }
        \cup UNION { (out_meta_values + PtrSize * index)
                       ..(out_meta_values + PtrSize * index + PtrSize - 1) :
                  index \in 0..(meta_count - 1) }
        \cup out_name..(alloc + WriteExtent(c) - 1)

\* C38: a stored breadcrumb is written only inside the bytes reserved for
\* it: every byte offset that forensics_add_breadcrumb writes (key-pointer
\* table, value-pointer table, name, metadata strings) lies in
\* [alloc, alloc + required_size), whatever meta_count and string lengths.
C38_WritesStayInsideReservation ==
    (last.op = "add" /\ last.kind = "stored") =>
        LET slot == s_breadcrumbs[(s_breadcrumbs_index_next
                                    + s_config.max_breadcrumb_count - 1)
                                   % s_config.max_breadcrumb_count]
            alloc == AllocOf(slot)
        IN  /\ slot.buf_size = required_size(last.crumb)
            /\ WrittenOffsets(last.crumb, alloc)
                 \subseteq alloc..(alloc + required_size(last.crumb) - 1)

=============================================================================
